---- MODULE Spec2Model ----
(***************************************************************************)
(* A model of quenbyako/core:                                              *)
(*   - the lifecycle orchestrator Run (contrib/runtime/run.go and the      *)
(*     second copy of Run kept in the repository),                         *)
(*   - the concurrent job scheduler RunJobs (scheduler.go),                *)
(*   - the resource parameters of contrib/params (lifecycle wrappers),     *)
(*   - the environment decoder of contrib/runtime/env,                     *)
(*   - the parser registry of internal/param_registry.go,                  *)
(*   - Serve of the HTTP and Prometheus server wrappers,                   *)
(*   - the metric server of the runtime (acquire and shutdown),            *)
(*   - the multi-scheme secret engine of contrib/secrets.                  *)
(***************************************************************************)
EXTENDS Integers, Sequences, FiniteSets, TLC

(***************************************************************************)
(* Bounds of the model.                                                    *)
(***************************************************************************)
MaxParams == 3

MaxJobs == 2

MaxOps == 3

MaxParts == 2

MaxPtrDepth == 2

MaxRegs == 2

MaxConns == 2

\* goroutines calling the secret engine, and the calls they make in all
MaxCallers == 2

MaxCalls == 3

(***************************************************************************)
(* State.                                                                  *)
(***************************************************************************)
VARIABLES
    \* ---- Run ----
    variant,        \* which copy of Run executes: "contrib" or "legacy"
    metricServer,   \* TRUE iff metricServer # nil (GetMetricsAddr() # nil)
    configurations, \* activeParams(): the resource parameters, in order
    pc,             \* position of Run
    idx,            \* index of the range loop Run is in
    configErrs,     \* who failed in the configure phase (0 = metric server)
    acquireErrs,    \* who failed in the acquire phase
    shutdownErrs,   \* who failed in the shutdown phase
    calls,          \* history: every lifecycle call made so far
    code,           \* exit code returned by the user action
    exitCode,       \* value returned by Run
    cfgData,        \* non-zero fields of cfgData (core.ConfigureData)
    acquireData,    \* non-zero fields of acquireData (core.AcquireData)
    shutdownData,   \* non-zero fields of shutdownData (core.ShutdownData)
    \* ---- RunJobs ----
    jobs,           \* the job functions handed to RunJobs
    parentErr,      \* ctx.Err() of the caller's context
    jobCtxErr,      \* jobCtx.Err() of the derived context
    cancelEvents,   \* number of times jobCtx went from live to cancelled
    rjPc,           \* position of RunJobs itself
    spawned,        \* number of goroutines started by the for loop
    gpc,            \* position of every job goroutine
    ret,            \* what job(jobCtx) returned, per goroutine
    seenDone,       \* whether jobCtx was done when the job returned
    local,          \* the slice header a goroutine read for append
    errs,           \* the shared slice errs
    errsMux,        \* holder of errsMux (0 = unlocked)
    wg,             \* counter of the WaitGroup
    counted,        \* the goroutines that have called wg.Done()
    result,         \* the errors joined into RunJobs's return value
    \* ---- resource parameters (listener, gRPC, HTTP, Prometheus) ----
    wKind,          \* which wrapper type the instance is
    wConn,          \* its listener field: "nil", "open" or "closed"
    wCalls,         \* history: the lifecycle calls made on the instance
    wPanicked,      \* TRUE once a call on the instance has panicked
    \* ---- env.Parse ----
    eSchema,        \* the fields of the record type handed to Parse
    eEnv,           \* parseParams.environment: key -> text
    ePrefix,        \* parseParams.prefix
    ePc,            \* position of Parse
    eTodo,          \* the field visits still ahead, in depth-first order
    eErrs,          \* the []*FieldError collected so far
    eAssigned,      \* path of a field -> the value decode has set it to
    eOnSet,         \* history: the calls of parseParams.onSet
    eLookups,       \* history: the keys getEnv has been asked for
    eAttempted,     \* history: the fields setValue has run on
    eRaw,           \* history: path -> the text setValue resolved for it
    eParsed,        \* history: the texts handed to a parser function
    eAllocated,     \* the pointer fields decode has allocated a target for
    eResult,        \* the error Parse returns
    \* ---- parser registry ----
    envRegistry,    \* the map envRegistry: type -> parser
    rCalls,         \* history: the calls of RegisterEnvParser
    rLookup,        \* the last call of GetParseFunc and what it returned
    rValue,         \* what the parser of the last lookup returned
    \* ---- Serve of the HTTP and Prometheus wrappers ----
    sKind,          \* "http" or "prometheus"
    sConfigured,    \* TRUE iff Configure has set the log field
    sConn,          \* the conn field: "nil", "open" or "closed"
    sHandler,       \* srv.Handler: "nil", "user" or "NotFound"
    sCtx,           \* the context handed to Serve: "live" or "done"
    sPc,            \* position of Serve
    sGo,            \* position of the goroutine Serve starts
    sInShutdown,    \* TRUE once srv.Shutdown has begun
    sActive,        \* number of connections serving a request
    sShutdownErr,   \* the variable shutdownErr
    sRet,           \* the error Serve returned
    sPanic,         \* the value Serve panicked with
    \* ---- the metric server of the runtime ----
    mPc,            \* position of the caller of acquire and shutdown
    mConn,          \* the conn field: "nil", "open" or "closed"
    mGo,            \* position of the goroutine acquire starts
    mInShutdown,    \* TRUE once srv.Shutdown has begun
    mConfigured,    \* TRUE iff configure has set the log field
    mConns,         \* the state of every connection of the server
    mRet,           \* the error shutdown returned
    \* ---- the multi-scheme secret engine ----
    closed,         \* the flag multiEngine.closed
    storageCloses,  \* scheme -> number of Close calls its storage has had
    tPc,            \* position of every calling goroutine
    tTodo,          \* the storages the range loop of a caller has ahead
    tErrs,          \* the storages whose Close failed in a caller's loop
    tStart,         \* the number of Close calls returned when a call began
    secCalls        \* history: the calls that have returned, in order

runVars == <<variant, metricServer, configurations, pc, idx, configErrs,
             acquireErrs, shutdownErrs, calls, code, exitCode>>

jobVars == <<jobs, parentErr, jobCtxErr, cancelEvents, rjPc, spawned, gpc,
             ret, seenDone, local, errs, errsMux, wg, counted, result>>

dataVars == <<cfgData, acquireData, shutdownData>>

wrapVars == <<wKind, wConn, wCalls, wPanicked>>

envVars == <<eSchema, eEnv, ePrefix, ePc, eTodo, eErrs, eAssigned, eOnSet,
             eLookups, eAttempted, eRaw, eParsed, eAllocated, eResult>>

regVars == <<envRegistry, rCalls, rLookup, rValue>>

srvVars == <<sKind, sConfigured, sConn, sHandler, sCtx, sPc, sGo, sInShutdown,
             sActive, sShutdownErr, sRet, sPanic>>

metVars == <<mPc, mConn, mGo, mInShutdown, mConfigured, mConns, mRet>>

secVars == <<closed, storageCloses, tPc, tTodo, tErrs, tStart, secCalls>>

auxVars == <<metVars, secVars>>

\* what the actions of one part leave alone
metOthers == <<runVars, jobVars, dataVars, wrapVars, envVars, regVars,
               srvVars, secVars>>

secOthers == <<runVars, jobVars, dataVars, wrapVars, envVars, regVars,
               srvVars, metVars>>

extVars == <<wrapVars, envVars, regVars, srvVars, auxVars>>

vars == <<runVars, jobVars, dataVars, extVars>>


(***************************************************************************)
(* Run: the lifecycle orchestrator.                                        *)
(***************************************************************************)
Variants == {"contrib", "legacy"}

\* exit codes the user action may return (core.ExitCode)
ActionCodes == {0, 1, 2}

Call(op, p, err) == [op |-> op, p |-> p, err |-> err]

\* "if len(configErrs) > 0 { ... return 1 }"
ConfigureAbortsNever(cErrs) == FALSE

ConfigureAborts(cErrs) == Len(cErrs) > 0

\* "if len(acquireErrs) > 0 { ... return 1 }"
AcquireAbortsNever(aErrs) == FALSE

AcquireAborts(aErrs) == Len(aErrs) > 0

\* "if len(shutdownErrs) > 0 { ... return 1 }"
ShutdownAbortsNever(sErrs) == FALSE

ShutdownAborts(sErrs) == Len(sErrs) > 0

\* the element the i-th iteration of "for _, v := range configurations" visits
ConfigureOrderFirstOnly(cfgs, i) == cfgs[1]

ConfigureOrder(cfgs, i) == cfgs[i]

AcquireOrder(cfgs, i) == cfgs[i]

ShutdownOrderReversed(cfgs, i) == cfgs[Len(cfgs) + 1 - i]

ShutdownOrder(cfgs, i) == cfgs[i]

\* the statement that follows each phase; the legacy copy has no metric server
AfterSetup(v) == IF v = "contrib" THEN "configure_metric" ELSE "configure"

AfterConfigureSkipsAcquire(v) == "action"

AfterConfigure(v) == IF v = "contrib" THEN "acquire_metric" ELSE "acquire"

AfterAction(v) == IF v = "contrib" THEN "shutdown_metric" ELSE "shutdown"

\* the fields of core.ConfigureData
DataFields ==
    {"AppCert", "Logger", "Secrets", "Metric", "Trace", "Pool", "Version"}

\* cfgData := core.ConfigureData{...}: the logger, the secret engine and the
\* observability providers are always built; the client certificate, the
\* trust store and the version are zero when they were not configured
\* (here: none of the three, or all of them)
CfgDataValues ==
    {{"Logger", "Secrets", "Metric", "Trace"} \cup opt :
        opt \in {{}, {"AppCert", "Pool", "Version"}}}

\* contrib: "acquireData := core.AcquireData{}";
\* legacy:  "acquireData := core.AcquireData{ConfigureData: cfgData}"
AcquireDataOf(v, cfg) == IF v = "contrib" THEN {} ELSE cfg

\* contrib: "shutdownData := core.ShutdownData{}";
\* legacy:  "shutdownData := core.ShutdownData{AcquireData: acquireData}"
ShutdownDataOf(v, acq) == IF v = "contrib" THEN {} ELSE acq

DataIdle ==
    /\ cfgData = {}
    /\ acquireData = {}
    /\ shutdownData = {}

RunIdle ==
    /\ DataIdle
    /\ variant = "contrib"
    /\ metricServer = FALSE
    /\ configurations = <<>>
    /\ pc = "idle"
    /\ idx = 0
    /\ configErrs = <<>>
    /\ acquireErrs = <<>>
    /\ shutdownErrs = <<>>
    /\ calls = <<>>
    /\ code = 0
    /\ exitCode = 0

RunInit ==
    /\ DataIdle
    /\ variant \in Variants
    /\ metricServer \in (IF variant = "contrib" THEN BOOLEAN ELSE {FALSE})
    /\ configurations = <<>>
    /\ pc = "parse"
    /\ idx = 0
    /\ configErrs = <<>>
    /\ acquireErrs = <<>>
    /\ shutdownErrs = <<>>
    /\ calls = <<>>
    /\ code = 0
    /\ exitCode = 0

Return(c) ==
    /\ pc' = "returned"
    /\ exitCode' = c

Panic ==
    /\ pc' = "panicked"
    /\ UNCHANGED exitCode

\* decoding of the configuration; the observer collects the active parameters
ParseConfig ==
    /\ pc = "parse"
    /\ \E outcome \in {"ok", "missing", "panic"}, n \in 0..MaxParams :
         \/ /\ outcome = "ok"
            /\ configurations' = [i \in 1..n |-> i]
            /\ pc' = "setup"
            /\ UNCHANGED exitCode
         \/ /\ outcome = "missing"
            /\ n = 0
            /\ Return(1)
            /\ UNCHANGED configurations
         \/ /\ outcome = "panic"
            /\ n = 0
            /\ Panic
            /\ UNCHANGED configurations
    /\ UNCHANGED <<variant, metricServer, idx, configErrs, acquireErrs,
                   shutdownErrs, calls, code, jobVars, dataVars, extVars>>

\* logger, certificates, secret engine, observability, phase data
Setup ==
    /\ pc = "setup"
    /\ \E ok \in BOOLEAN, data \in CfgDataValues :
         IF ok
         THEN /\ pc' = AfterSetup(variant)
              /\ idx' = 1
              /\ cfgData' = data
              /\ UNCHANGED exitCode
         ELSE /\ Panic
              /\ UNCHANGED <<idx, cfgData>>
    /\ UNCHANGED <<variant, metricServer, configurations, configErrs,
                   acquireErrs, shutdownErrs, calls, code, acquireData,
                   shutdownData, jobVars, extVars>>

\* metricServer.configure(ctx, log): writes g.log, so a nil receiver panics
ConfigureMetric ==
    /\ pc = "configure_metric"
    /\ IF metricServer
       THEN /\ calls' = Append(calls, Call("Configure", 0, FALSE))
            /\ pc' = "configure"
            /\ UNCHANGED exitCode
       ELSE /\ Panic
            /\ UNCHANGED calls
    /\ UNCHANGED <<variant, metricServer, configurations, idx, configErrs,
                   acquireErrs, shutdownErrs, code, jobVars, dataVars, extVars>>

Configure ==
    /\ pc = "configure"
    /\ idx <= Len(configurations)
    /\ \E err \in BOOLEAN :
         LET v == ConfigureOrder(configurations, idx) IN
         /\ calls' = Append(calls, Call("Configure", v, err))
         /\ configErrs' = IF err THEN Append(configErrs, v) ELSE configErrs
    /\ idx' = idx + 1
    /\ UNCHANGED <<variant, metricServer, configurations, pc, acquireErrs,
                   shutdownErrs, code, exitCode, jobVars, dataVars, extVars>>

ConfigureCheck ==
    /\ pc = "configure"
    /\ idx > Len(configurations)
    /\ IF ConfigureAborts(configErrs)
       THEN /\ Return(1)
            /\ UNCHANGED <<idx, acquireData>>
       ELSE /\ pc' = AfterConfigure(variant)
            /\ idx' = 1
            /\ acquireData' = AcquireDataOf(variant, cfgData)
            /\ UNCHANGED exitCode
    /\ UNCHANGED <<variant, metricServer, configurations, configErrs,
                   acquireErrs, shutdownErrs, calls, code, cfgData,
                   shutdownData, jobVars, extVars>>

\* metricServer.acquire(ctx): listening may fail
AcquireMetric ==
    /\ pc = "acquire_metric"
    /\ \E err \in BOOLEAN :
         /\ calls' = Append(calls, Call("Acquire", 0, err))
         /\ acquireErrs' = IF err THEN Append(acquireErrs, 0) ELSE acquireErrs
    /\ pc' = "acquire"
    /\ UNCHANGED <<variant, metricServer, configurations, idx, configErrs,
                   shutdownErrs, code, exitCode, jobVars, dataVars, extVars>>

\* contrib: the error is appended and the loop goes on; legacy: panic
Acquire ==
    /\ pc = "acquire"
    /\ idx <= Len(configurations)
    /\ \E err \in BOOLEAN :
         LET v == AcquireOrder(configurations, idx) IN
         /\ calls' = Append(calls, Call("Acquire", v, err))
         /\ IF err /\ variant = "legacy"
            THEN /\ Panic
                 /\ UNCHANGED <<acquireErrs, idx>>
            ELSE /\ acquireErrs' = IF err THEN Append(acquireErrs, v)
                                          ELSE acquireErrs
                 /\ idx' = idx + 1
                 /\ UNCHANGED <<pc, exitCode>>
    /\ UNCHANGED <<variant, metricServer, configurations, configErrs,
                   shutdownErrs, code, jobVars, dataVars, extVars>>

AcquireCheck ==
    /\ pc = "acquire"
    /\ idx > Len(configurations)
    /\ IF AcquireAborts(acquireErrs)
       THEN Return(1)
       ELSE /\ pc' = "action"
            /\ UNCHANGED exitCode
    /\ UNCHANGED <<variant, metricServer, configurations, idx, configErrs,
                   acquireErrs, shutdownErrs, calls, code,
                   jobVars, dataVars, extVars>>

\* code := action(ctx, &appCtx{...}): the call ...
ActionInvoke ==
    /\ pc = "action"
    /\ calls' = Append(calls, Call("ActionInvoke", 0, FALSE))
    /\ pc' = "in_action"
    /\ UNCHANGED <<variant, metricServer, configurations, idx, configErrs,
                   acquireErrs, shutdownErrs, code, exitCode,
                   jobVars, dataVars, extVars>>

\* ... and its return
ActionReturn ==
    /\ pc = "in_action"
    /\ \E c \in ActionCodes : code' = c
    /\ calls' = Append(calls, Call("ActionReturn", 0, FALSE))
    /\ pc' = AfterAction(variant)
    /\ idx' = 1
    /\ shutdownData' = ShutdownDataOf(variant, acquireData)
    /\ UNCHANGED <<variant, metricServer, configurations, configErrs,
                   acquireErrs, shutdownErrs, exitCode, cfgData, acquireData,
                   jobVars, extVars>>

ShutdownMetric ==
    /\ pc = "shutdown_metric"
    /\ \E err \in BOOLEAN :
         /\ calls' = Append(calls, Call("Shutdown", 0, err))
         /\ shutdownErrs' = IF err THEN Append(shutdownErrs, 0)
                                   ELSE shutdownErrs
    /\ pc' = "shutdown"
    /\ UNCHANGED <<variant, metricServer, configurations, idx, configErrs,
                   acquireErrs, code, exitCode, jobVars, dataVars, extVars>>

\* contrib: the error is appended and the loop goes on; legacy: panic
Shutdown ==
    /\ pc = "shutdown"
    /\ idx <= Len(configurations)
    /\ \E err \in BOOLEAN :
         LET v == ShutdownOrder(configurations, idx) IN
         /\ calls' = Append(calls, Call("Shutdown", v, err))
         /\ IF err /\ variant = "legacy"
            THEN /\ Panic
                 /\ UNCHANGED <<shutdownErrs, idx>>
            ELSE /\ shutdownErrs' = IF err THEN Append(shutdownErrs, v)
                                           ELSE shutdownErrs
                 /\ idx' = idx + 1
                 /\ UNCHANGED <<pc, exitCode>>
    /\ UNCHANGED <<variant, metricServer, configurations, configErrs,
                   acquireErrs, code, jobVars, dataVars, extVars>>

ShutdownCheck ==
    /\ pc = "shutdown"
    /\ idx > Len(configurations)
    /\ IF ShutdownAborts(shutdownErrs) THEN Return(1) ELSE Return(code)
    /\ UNCHANGED <<variant, metricServer, configurations, idx, configErrs,
                   acquireErrs, shutdownErrs, calls, code,
                   jobVars, dataVars, extVars>>

RunNext ==
    \/ ParseConfig
    \/ Setup
    \/ ConfigureMetric
    \/ Configure
    \/ ConfigureCheck
    \/ AcquireMetric
    \/ Acquire
    \/ AcquireCheck
    \/ ActionInvoke
    \/ ActionReturn
    \/ ShutdownMetric
    \/ Shutdown
    \/ ShutdownCheck

(***************************************************************************)
(* RunJobs: the concurrent job scheduler.                                  *)
(***************************************************************************)
\* error values a job may return; "nil" is the nil error
Errors == {"nil", "Canceled", "DeadlineExceeded", "WrappedCanceled", "E1", "E2"}

\* the error an error wraps (fmt.Errorf("...: %w", context.Canceled))
Unwrap(e) == IF e = "WrappedCanceled" THEN "Canceled" ELSE "nil"

\* errors.Is: walks the chain of wrapped errors
RECURSIVE ErrorsIs(_, _)
ErrorsIs(err, target) ==
    /\ err # "nil"
    /\ \/ err = target
       \/ ErrorsIs(Unwrap(err), target)

omitContextErrKeepsAll(err) == err

omitContextErrOnlyCanceled(err) ==
    IF ErrorsIs(err, "Canceled") THEN "nil" ELSE err

omitContextErr(err) ==
    IF ErrorsIs(err, "Canceled") \/ ErrorsIs(err, "DeadlineExceeded")
    THEN "nil"
    ELSE err

\* errors.Join: drops nil errors; the empty sequence stands for a nil result
ErrorsJoin(es) == SelectSeq(es, LAMBDA e : e # "nil")

\* a job either returns a fixed value whenever it likes, or blocks until its
\* context is done and returns the context's error
JobKinds ==
    {[kind |-> "block", val |-> "nil"]}
        \cup {[kind |-> "ret", val |-> e] : e \in Errors}

\* cancel() of a context: only the first cancellation sets the error
CancelCtxOverwrites(cur, cause) == cause

CancelCtx(cur, cause) == IF cur = "nil" THEN cause ELSE cur

CancelCount(cur, n) == IF cur = "nil" THEN n + 1 ELSE n

\* errsMux.Lock() succeeds only while nobody holds the mutex
MutexFreeAlways(m) == TRUE

MutexFree(m) == m = 0

\* wg.Wait() returns only when the counter is zero
WaitReturnsAlways(w) == TRUE

WaitReturns(w) == w = 0

\* the statement of the goroutine body that follows statement p
GoroutineNextDoneFirst(p) ==
    CASE p = "append" -> "done"
      [] p = "done" -> "cancel"
      [] p = "cancel" -> "exited"

GoroutineNextNoCancel(p) ==
    CASE p = "append" -> "done"
      [] p = "cancel" -> "done"
      [] p = "done" -> "exited"

GoroutineNext(p) ==
    CASE p = "append" -> "cancel"
      [] p = "cancel" -> "done"
      [] p = "done" -> "exited"

JobIds == 1..MaxJobs

JobsIdle ==
    /\ jobs = <<>>
    /\ parentErr = "nil"
    /\ jobCtxErr = "nil"
    /\ cancelEvents = 0
    /\ rjPc = "idle"
    /\ spawned = 0
    /\ gpc = [i \in JobIds |-> "unborn"]
    /\ ret = [i \in JobIds |-> "nil"]
    /\ seenDone = [i \in JobIds |-> FALSE]
    /\ local = [i \in JobIds |-> <<>>]
    /\ errs = <<>>
    /\ errsMux = 0
    /\ wg = 0
    /\ counted = {}
    /\ result = <<>>

JobsInitWith(kinds) ==
    /\ \E n \in 0..MaxJobs : jobs \in [1..n -> kinds]
    /\ parentErr = "nil"
    /\ jobCtxErr = "nil"
    /\ cancelEvents = 0
    /\ rjPc = "start"
    /\ spawned = 0
    /\ gpc = [i \in JobIds |-> "unborn"]
    /\ ret = [i \in JobIds |-> "nil"]
    /\ seenDone = [i \in JobIds |-> FALSE]
    /\ local = [i \in JobIds |-> <<>>]
    /\ errs = <<>>
    /\ errsMux = 0
    /\ wg = 0
    /\ counted = {}
    /\ result = <<>>

JobsInit == JobsInitWith(JobKinds)

\* the jobs of the fail-fast scenario: they fail, or block on their context
ScenarioKinds ==
    {k \in JobKinds : k.kind = "block" \/ k.val = "E1"}

\* the caller cancels ctx, or its deadline passes; a live child is cancelled
ParentCancel ==
    /\ rjPc \in {"start", "spawn"}
    /\ parentErr = "nil"
    /\ \E cause \in {"Canceled", "DeadlineExceeded"} :
         /\ parentErr' = cause
         /\ IF rjPc = "spawn"
            THEN /\ jobCtxErr' = CancelCtx(jobCtxErr, cause)
                 /\ cancelEvents' = CancelCount(jobCtxErr, cancelEvents)
            ELSE UNCHANGED <<jobCtxErr, cancelEvents>>
    /\ UNCHANGED <<jobs, rjPc, spawned, gpc, ret, seenDone, local, errs,
                   errsMux, wg, counted, result, runVars, dataVars, extVars>>

\* context.WithCancel(ctx): the derived context is done as soon as, and for
\* the reason that, its parent is
WithCancelDetached(parent) == "nil"

WithCancel(parent) == parent

\* jobCtx, cancel := context.WithCancel(ctx); wg.Add(len(jobs))
Start ==
    /\ rjPc = "start"
    /\ jobCtxErr' = WithCancel(parentErr)
    /\ cancelEvents' = IF parentErr = "nil" THEN 0 ELSE 1
    /\ wg' = Len(jobs)
    /\ rjPc' = "spawn"
    /\ UNCHANGED <<jobs, parentErr, spawned, gpc, ret, seenDone, local, errs,
                   errsMux, counted, result, runVars, dataVars, extVars>>

\* one iteration of "for i, job := range jobs { go func... }"
Spawn ==
    /\ rjPc = "spawn"
    /\ spawned < Len(jobs)
    /\ spawned' = spawned + 1
    /\ gpc' = [gpc EXCEPT ![spawned + 1] = "run"]
    /\ UNCHANGED <<jobs, parentErr, jobCtxErr, cancelEvents, rjPc, ret,
                   seenDone, local, errs, errsMux, wg, counted, result,
                   runVars, dataVars, extVars>>

\* err := omitContextErr(job(jobCtx)); err != nil ?
JobReturn(i) ==
    /\ gpc[i] = "run"
    /\ \E v \in Errors :
         /\ \/ jobs[i].kind = "ret" /\ v = jobs[i].val
            \/ jobs[i].kind = "block" /\ jobCtxErr # "nil" /\ v = jobCtxErr
         /\ ret' = [ret EXCEPT ![i] = v]
         /\ gpc' = [gpc EXCEPT ![i] =
                       IF omitContextErr(v) # "nil" THEN "lock" ELSE "done"]
    /\ seenDone' = [seenDone EXCEPT ![i] = (jobCtxErr # "nil")]
    /\ UNCHANGED <<jobs, parentErr, jobCtxErr, cancelEvents, rjPc, spawned,
                   local, errs, errsMux, wg, counted, result,
                   runVars, dataVars, extVars>>

\* errsMux.Lock(), and append's read of errs
JobLock(i) ==
    /\ gpc[i] = "lock"
    /\ MutexFree(errsMux)
    /\ errsMux' = i
    /\ local' = [local EXCEPT ![i] = errs]
    /\ gpc' = [gpc EXCEPT ![i] = "append"]
    /\ UNCHANGED <<jobs, parentErr, jobCtxErr, cancelEvents, rjPc, spawned,
                   ret, seenDone, errs, wg, counted, result,
                   runVars, dataVars, extVars>>

\* errs = append(errs, err); errsMux.Unlock()
JobAppend(i) ==
    /\ gpc[i] = "append"
    /\ errs' = Append(local[i], omitContextErr(ret[i]))
    /\ errsMux' = 0
    /\ gpc' = [gpc EXCEPT ![i] = GoroutineNext("append")]
    /\ UNCHANGED <<jobs, parentErr, jobCtxErr, cancelEvents, rjPc, spawned,
                   ret, seenDone, local, wg, counted, result,
                   runVars, dataVars, extVars>>

\* cancel()
JobCancel(i) ==
    /\ gpc[i] = "cancel"
    /\ jobCtxErr' = CancelCtx(jobCtxErr, "Canceled")
    /\ cancelEvents' = CancelCount(jobCtxErr, cancelEvents)
    /\ gpc' = [gpc EXCEPT ![i] = GoroutineNext("cancel")]
    /\ UNCHANGED <<jobs, parentErr, rjPc, spawned, ret, seenDone, local,
                   errs, errsMux, wg, counted, result,
                   runVars, dataVars, extVars>>

\* wg.Done()
JobDone(i) ==
    /\ gpc[i] = "done"
    /\ wg' = wg - 1
    /\ counted' = counted \cup {i}
    /\ gpc' = [gpc EXCEPT ![i] = GoroutineNext("done")]
    /\ UNCHANGED <<jobs, parentErr, jobCtxErr, cancelEvents, rjPc, spawned,
                   ret, seenDone, local, errs, errsMux, result,
                   runVars, dataVars, extVars>>

Goroutine(i) ==
    \/ JobReturn(i)
    \/ JobLock(i)
    \/ JobAppend(i)
    \/ JobCancel(i)
    \/ JobDone(i)

\* wg.Wait() returns; return errors.Join(errs...); deferred cancel()
WaitAndReturn ==
    /\ rjPc = "spawn"
    /\ spawned = Len(jobs)
    /\ WaitReturns(wg)
    /\ result' = ErrorsJoin(errs)
    /\ jobCtxErr' = CancelCtx(jobCtxErr, "Canceled")
    /\ cancelEvents' = CancelCount(jobCtxErr, cancelEvents)
    /\ rjPc' = "done"
    /\ UNCHANGED <<jobs, parentErr, spawned, gpc, ret, seenDone, local, errs,
                   errsMux, wg, counted, runVars, dataVars, extVars>>

RunJobsMain ==
    \/ Start
    \/ Spawn
    \/ WaitAndReturn

JobsNext ==
    \/ ParentCancel
    \/ Start
    \/ Spawn
    \/ WaitAndReturn
    \/ \E i \in JobIds : JobReturn(i)
    \/ \E i \in JobIds : JobLock(i)
    \/ \E i \in JobIds : JobAppend(i)
    \/ \E i \in JobIds : JobCancel(i)
    \/ \E i \in JobIds : JobDone(i)

(***************************************************************************)
(* Resource parameters: netListenerWrapper, grpcServerWrapper,             *)
(* httpServerWrapper and promhttpWrapper.                                  *)
(***************************************************************************)
WrapperKinds == {"listener", "grpc", "http", "prometheus"}

WrapCall(op, conn, out) == [op |-> op, conn |-> conn, out |-> out]

\* "g.conn, err = net.Listen(...)": the field is assigned in both outcomes,
\* a listener on success and nil on failure
ConnAfterAcquire(ok) == IF ok THEN "open" ELSE "nil"

\* what "g.conn.Close()" ("l.Close()" through the embedded net.Listener) does:
\* a method call on a nil interface value panics; closing an open listener
\* succeeds or fails in the operating system; closing a closed one returns
\* a *net.OpError whose text ends in "use of closed network connection"
CloseResults(conn) ==
    CASE conn = "nil" -> {"panic"}
      [] conn = "open" -> {"nil", "close tcp: input/output error"}
      [] conn = "closed" -> {"close tcp: use of closed network connection"}

ConnAfterClose(conn) == IF conn = "nil" THEN "nil" ELSE "closed"

\* the value Shutdown returns for the error of Close
ShutdownReturn(kind, closeErr) ==
    IF closeErr = "nil"
    THEN "nil"
    ELSE IF kind = "listener"
         THEN "err"
         ELSE IF closeErr # "use of closed network connection"
              THEN "nil"
              ELSE "err"

WrapIdle ==
    /\ wKind = "listener"
    /\ wConn = "nil"
    /\ wCalls = <<>>
    /\ wPanicked = FALSE

\* the state a parser (parseListener, parseGRPCServer, ...) returns
WrapInit ==
    /\ wKind \in WrapperKinds
    /\ wConn = "nil"
    /\ wCalls = <<>>
    /\ wPanicked = FALSE

WrapConfigure ==
    /\ ~wPanicked
    /\ Len(wCalls) < MaxOps
    /\ wCalls' = Append(wCalls, WrapCall("Configure", wConn, "nil"))
    /\ UNCHANGED <<wKind, wConn, wPanicked, runVars, jobVars, dataVars,
                   envVars, regVars, srvVars, auxVars>>

WrapAcquire ==
    /\ ~wPanicked
    /\ Len(wCalls) < MaxOps
    /\ \E ok \in BOOLEAN :
         /\ wConn' = ConnAfterAcquire(ok)
         /\ wCalls' = Append(wCalls, WrapCall("Acquire", wConn,
                                              IF ok THEN "nil" ELSE "err"))
    /\ UNCHANGED <<wKind, wPanicked, runVars, jobVars, dataVars, envVars,
                   regVars, srvVars, auxVars>>

WrapShutdown ==
    /\ ~wPanicked
    /\ Len(wCalls) < MaxOps
    /\ \E closeErr \in CloseResults(wConn) :
         IF closeErr = "panic"
         THEN /\ wPanicked' = TRUE
              /\ wCalls' = Append(wCalls, WrapCall("Shutdown", wConn, "panic"))
              /\ UNCHANGED wConn
         ELSE /\ wConn' = ConnAfterClose(wConn)
              /\ wCalls' = Append(wCalls,
                     WrapCall("Shutdown", wConn, ShutdownReturn(wKind, closeErr)))
              /\ UNCHANGED wPanicked
    /\ UNCHANGED <<wKind, runVars, jobVars, dataVars, envVars, regVars,
                   srvVars, auxVars>>

WrapNext ==
    \/ WrapConfigure
    \/ WrapAcquire
    \/ WrapShutdown

(***************************************************************************)
(* env.Parse: the structural decoder of contrib/runtime/env.               *)
(*                                                                         *)
(* A text is a sequence of one-character strings; a key is a string.       *)
(* A field is identified by its path: <<2, 1>> is the first field of the   *)
(* record held by the second field of the record handed to Parse.          *)
(***************************************************************************)
Digits == {"1"}

DigitValue(c) == IF c = "1" THEN 1 ELSE 0

HasSep(s, sep) == \E i \in 1..Len(s) : s[i] = sep

FirstSep(s, sep) ==
    CHOOSE i \in 1..Len(s) : s[i] = sep /\ \A j \in 1..(i - 1) : s[j] # sep

\* strings.Split(s, sep) for a one-character separator
RECURSIVE Split(_, _)
Split(s, sep) ==
    IF HasSep(s, sep)
    THEN <<SubSeq(s, 1, FirstSep(s, sep) - 1)>>
            \o Split(SubSeq(s, FirstSep(s, sep) + 1, Len(s)), sep)
    ELSE <<s>>

\* strings.SplitN(s, sep, 2)
SplitN2(s, sep) ==
    IF HasSep(s, sep)
    THEN <<SubSeq(s, 1, FirstSep(s, sep) - 1),
           SubSeq(s, FirstSep(s, sep) + 1, Len(s))>>
    ELSE <<s>>

RECURSIVE Decimal(_)
Decimal(s) ==
    IF s = <<>>
    THEN 0
    ELSE 10 * Decimal(SubSeq(s, 1, Len(s) - 1)) + DigitValue(s[Len(s)])

NumError(s) == [type |-> "NumError", text |-> s]

\* the built-in parser of an int: strconv.ParseInt(v, 10, 32)
ParseInt(s) ==
    IF s # <<>> /\ \A i \in 1..Len(s) : s[i] \in Digits
    THEN [ok |-> TRUE, val |-> Decimal(s), err |-> [type |-> "nil"]]
    ELSE [ok |-> FALSE, val |-> 0, err |-> NumError(s)]

ErrValueNotSet == [type |-> "ErrValueNotSet"]

errField(key, typ, err) ==
    [type |-> "FieldError", Key |-> key, Type |-> typ, Err |-> err]

errInvalidMapItemFormat(item, kvSeparator) ==
    [type |-> "InvalidMapItemFormatError", Item |-> item,
     KVSeparator |-> kvSeparator]

\* fmt.Errorf("index %v: %w", i, err)
IndexErr(i, err) == [type |-> "index", index |-> i, err |-> err]

\* fmt.Errorf("key %q: %w", pairs[0], err)
KeyErr(part, err) == [type |-> "key", text |-> part, err |-> err]

\* fmt.Errorf("value %q: %w", pairs[1], err)
ValueErr(part, err) == [type |-> "value", text |-> part, err |-> err]

\* "switch len(errs) { case 1: err = errs[0]; default: errors.Join(errs...) }"
CollapseErrs(es) ==
    IF Len(es) = 1 THEN es[1] ELSE [type |-> "join", errs |-> es]

\* a struct field with its tags; key is the name given in the env tag
Field(name, kind, exported, key, defaultSet, default, gprefix, fields) ==
    [name |-> name, kind |-> kind, exported |-> exported, key |-> key,
     defaultSet |-> defaultSet, default |-> default, gprefix |-> gprefix,
     fields |-> fields, ptr |-> FALSE, param |-> FALSE]

\* the same field declared with the pointer type
PtrTo(field) == [field EXCEPT !.ptr = TRUE]

\* the same field declared with a type that implements core.EnvParam
EnvParamField(field) == [field EXCEPT !.param = TRUE]

\* setStructField: "if reflect.Ptr == v.Kind() && v.Elem().Kind() ==
\* reflect.Invalid { v.Set(reflect.New(v.Type().Elem())) ... }" on a field
\* that is nil when decode starts
AllocatesTarget(field) == field.ptr

structTagPrefix(prefix, field) == prefix \o field.gprefix

parseFieldParamsNeverIgnored(field, prefix) ==
    LET key == IF field.key # "-" THEN prefix \o field.key ELSE field.key
    IN  [key |-> key, DefaultValue |-> field.default,
         defaultSet |-> field.defaultSet, separator |-> ",",
         kvSeparator |-> ":", ignored |-> FALSE]

parseFieldParams(field, prefix) ==
    LET key == IF field.key # "-" THEN prefix \o field.key ELSE field.key
    IN  [key |-> key, DefaultValue |-> field.default,
         defaultSet |-> field.defaultSet, separator |-> ",",
         kvSeparator |-> ":", ignored |-> (key = "-")]

keyWithPrefix(prefix, key) == prefix \o key

getEnv(env, prefix, key) ==
    IF (prefix \o key) \in DOMAIN env
    THEN [value |-> env[prefix \o key], exists |-> TRUE]
    ELSE [value |-> <<>>, exists |-> FALSE]

\* "if !exists || value == """
ValueMissingOnlyAbsent(got) == ~got.exists

ValueMissing(got) == ~got.exists \/ got.value = <<>>

\* the visits "for i := 0; i < refType.NumField(); i++" of setStruct makes
TodoOf(fields, prefix, parent) ==
    [i \in 1..Len(fields) |->
        [f |-> fields[i], prefix |-> structTagPrefix(prefix, fields[i]),
         path |-> Append(parent, i)]]

\* setSlice: the errors of the loop over the parts
SliceErrsFirstOnly(parts) ==
    LET all == [i \in 1..Len(parts) |-> IndexErr(i - 1, ParseInt(parts[i]).err)]
        bad == SelectSeq(all, LAMBDA e : e.err.type # "nil")
    IN  IF bad = <<>> THEN bad ELSE <<bad[1]>>

SliceErrs(parts) ==
    LET all == [i \in 1..Len(parts) |-> IndexErr(i - 1, ParseInt(parts[i]).err)]
    IN  SelectSeq(all, LAMBDA e : e.err.type # "nil")

SliceValue(parts) == [i \in 1..Len(parts) |-> ParseInt(parts[i]).val]

\* setMap: the loop over the parts; direct = TRUE is the immediate return
RECURSIVE MapLoop(_, _, _, _, _)
MapLoop(parts, kvSeparator, es, res, parsed) ==
    IF parts = <<>>
    THEN [direct |-> FALSE, item |-> <<>>, errs |-> es, result |-> res,
          parsed |-> parsed]
    ELSE LET part == Head(parts)
             pairs == SplitN2(part, kvSeparator)
         IN  IF Len(pairs) # 2
             THEN [direct |-> TRUE, item |-> part, errs |-> es,
                   result |-> res, parsed |-> parsed]
             ELSE LET k == ParseInt(pairs[1])
                      e == ParseInt(pairs[2])
                  IN  IF ~k.ok
                      THEN MapLoop(Tail(parts), kvSeparator,
                                   Append(es, KeyErr(pairs[1], k.err)),
                                   res, Append(parsed, pairs[1]))
                      ELSE IF ~e.ok
                      THEN MapLoop(Tail(parts), kvSeparator,
                                   Append(es, ValueErr(pairs[2], e.err)),
                                   res, parsed \o <<pairs[1], pairs[2]>>)
                      ELSE MapLoop(Tail(parts), kvSeparator, es,
                                   (k.val :> e.val) @@ res,
                                   parsed \o <<pairs[1], pairs[2]>>)

\* the error setMap returns: nil, the direct error, or the collected ones
MapErrCollected(loop, kvSeparator) ==
    IF loop.direct
    THEN CollapseErrs(Append(loop.errs,
                             errInvalidMapItemFormat(loop.item, kvSeparator)))
    ELSE IF loop.errs = <<>>
         THEN [type |-> "nil"]
         ELSE CollapseErrs(loop.errs)

MapErr(loop, kvSeparator) ==
    IF loop.direct
    THEN errInvalidMapItemFormat(loop.item, kvSeparator)
    ELSE IF loop.errs = <<>>
         THEN [type |-> "nil"]
         ELSE CollapseErrs(loop.errs)

\* parseInternal: "switch len(fields)"
ParseResultAlwaysJoined(fields) ==
    IF Len(fields) = 0
    THEN [type |-> "nil"]
    ELSE [type |-> "join", errs |-> fields]

ParseResult(fields) ==
    IF Len(fields) = 0
    THEN [type |-> "nil"]
    ELSE IF Len(fields) = 1
         THEN fields[1]
         ELSE [type |-> "join", errs |-> fields]

ParseCall(path, texts) == [i \in 1..Len(texts) |-> [path |-> path, text |-> texts[i]]]

\* ---- the record types and environments the decoder is run on ----
Prefixes == {"", "APP_"}

RECURSIVE Join(_, _)
Join(parts, sep) ==
    IF Len(parts) = 1
    THEN parts[1]
    ELSE parts[1] \o <<sep>> \o Join(Tail(parts), sep)

SeqsUpTo(S, n) == UNION {[1..k -> S] : k \in 1..n}

IntTexts == {<<>>, <<"1">>, <<"x">>}

SliceTexts ==
    {<<>>} \cup {Join(ps, ",") : ps \in SeqsUpTo({<<"1">>, <<"x">>}, MaxParts)}

MapParts == {<<"1", ":", "1">>, <<"x", ":", "1">>, <<"1", ":", "x">>, <<"1">>}

MapTexts == {<<>>} \cup {Join(ps, ",") : ps \in SeqsUpTo(MapParts, MaxParts)}

TextsOf(kind) ==
    CASE kind = "int" -> IntTexts
      [] kind = "slice" -> SliceTexts
      [] kind = "map" -> MapTexts
      [] kind = "struct" -> {<<"1">>}

\* the text of the default tag, where a field declares one
DefaultOf(kind) ==
    CASE kind = "int" -> <<"1", "1">>
      [] kind = "slice" -> <<"1", "1", ",", "1">>
      [] kind = "map" -> <<"1", "1", ":", "1">>
      [] kind = "struct" -> <<"1", "1">>

Modes == {"plain", "default", "ignored", "unexported"}

Shape(name, kind, mode, gprefix, fields) ==
    Field(name, kind, mode # "unexported",
          IF mode = "ignored" THEN "-" ELSE name,
          mode = "default",
          IF mode = "default" THEN DefaultOf(kind) ELSE <<>>,
          gprefix, fields)

\* fields whose type has a parser and implements core.EnvParam
ParamShapes(name) ==
    {EnvParamField(Shape(name, "int", m, "", <<>>)) :
        m \in {"plain", "default"}}

IntShapes(name) == {Shape(name, "int", m, "", <<>>) : m \in Modes}

LeafShapes(name) ==
    IntShapes(name) \cup
    {Shape(name, k, m, "", <<>>) :
        k \in {"slice", "map"}, m \in {"plain", "default"}}

InnerStructShapes(name) ==
    {Shape(name, "struct", m, g, <<Shape("D", "int", "plain", "", <<>>)>>) :
        m \in {"plain", "default"}, g \in {"", "H_"}}

StructShapes(name) ==
    {Shape(name, "struct", m, g, <<c>>) :
        m \in Modes, g \in {"", "G_"},
        c \in IntShapes("C") \cup InnerStructShapes("C")
                \cup ParamShapes("C")}

\* pointer fields: *int and *[]int
PtrShapes(name) ==
    {PtrTo(Shape(name, k, m, "", <<>>)) :
        k \in {"int", "slice"}, m \in {"plain", "default", "ignored"}}

Records ==
    LET first == LeafShapes("F1") \cup StructShapes("F1") \cup PtrShapes("F1")
                    \cup ParamShapes("F1")
        second == IntShapes("F2") \cup ParamShapes("F2")
    IN  {<<f>> : f \in first} \cup
        {<<f1, f2>> : f1 \in first, f2 \in second}

\* the keys an environment may hold a value under, with the kind of the
\* field each belongs to: the prefix, the group-prefixes of the enclosing
\* records, and the field's name (a record field's own key also carries
\* its own group-prefix)
RECURSIVE FullKeys(_, _)
FullKeys(fields, prefix) ==
    UNION {
        LET f == fields[i]
        IN  {[key |-> prefix \o f.gprefix \o f.name, kind |-> f.kind]}
                \cup FullKeys(f.fields, prefix \o f.gprefix)
        : i \in 1..Len(fields)}

RECURSIVE EnvsOver(_)
EnvsOver(keys) ==
    IF keys = {}
    THEN {<<>>}
    ELSE LET k == CHOOSE k \in keys : TRUE
             others == EnvsOver(keys \ {k})
         IN  others \cup
             {(k.key :> t) @@ e : e \in others, t \in TextsOf(k.kind)}

EnvIdle ==
    /\ eSchema = <<>>
    /\ eEnv = <<>>
    /\ ePrefix = ""
    /\ ePc = "idle"
    /\ eTodo = <<>>
    /\ eErrs = <<>>
    /\ eAssigned = <<>>
    /\ eOnSet = <<>>
    /\ eLookups = {}
    /\ eAttempted = {}
    /\ eRaw = <<>>
    /\ eParsed = <<>>
    /\ eAllocated = {}
    /\ eResult = [type |-> "nil"]

\* Parse(ctx, &record, WithEnvironment(eEnv), WithPrefix(ePrefix),
\* WithOnSet(...)) has been called and parseInternal enters setStruct
EnvInit ==
    /\ eSchema \in Records
    /\ ePrefix \in Prefixes
    /\ eEnv \in EnvsOver(FullKeys(eSchema, ePrefix))
    /\ ePc = "decoding"
    /\ eTodo = TodoOf(eSchema, "", <<>>)
    /\ eErrs = <<>>
    /\ eAssigned = <<>>
    /\ eOnSet = <<>>
    /\ eLookups = {}
    /\ eAttempted = {}
    /\ eRaw = <<>>
    /\ eParsed = <<>>
    /\ eAllocated = {}
    /\ eResult = [type |-> "nil"]

\* a call of the observer; isEnvParam tells whether the dynamic type of
\* value implements core.EnvParam
OnSetCall(key, value, isDefault, isEnvParam) ==
    [key |-> key, value |-> value, isDefault |-> isDefault,
     isEnvParam |-> isEnvParam]

\* the observer envParams installs: "if v, ok := value.(core.EnvParam); ok
\* { activeParams = append(activeParams, v) }"; a value is named by its key
OnSetAppendsAll(active, call) == Append(active, call.key)

OnSet(active, call) ==
    IF call.isEnvParam THEN Append(active, call.key) ELSE active

\* the slice activeParams after the calls cs of the observer
RECURSIVE envParams(_)
envParams(cs) ==
    IF cs = <<>>
    THEN <<>>
    ELSE OnSet(envParams(SubSeq(cs, 1, Len(cs) - 1)), cs[Len(cs)])

\* setValue once the text is resolved: parser, or struct / slice / map
SetResolved(v, f, params, prefix, value, usingDefault, rest) ==
    LET key == keyWithPrefix(ePrefix, params.key) IN
    CASE f.kind = "int" ->
            LET r == ParseInt(value) IN
            /\ eParsed' = eParsed \o ParseCall(v, <<value>>)
            /\ eTodo' = rest
            /\ IF r.ok
               THEN /\ eAssigned' = (v :> r.val) @@ eAssigned
                    /\ eOnSet' = Append(eOnSet,
                                        OnSetCall(key, r.val, usingDefault,
                                                  f.param))
                    /\ UNCHANGED eErrs
               ELSE /\ eErrs' = Append(eErrs, errField(key, f.kind, r.err))
                    /\ UNCHANGED <<eAssigned, eOnSet>>
      [] f.kind = "struct" ->
            /\ eTodo' = TodoOf(f.fields, prefix, v) \o rest
            /\ UNCHANGED <<eParsed, eAssigned, eOnSet, eErrs>>
      [] f.kind = "slice" ->
            LET parts == Split(value, params.separator)
                es == SliceErrs(parts)
            IN  /\ eParsed' = eParsed \o ParseCall(v, parts)
                /\ eTodo' = rest
                /\ IF es = <<>>
                   THEN /\ eAssigned' = (v :> SliceValue(parts)) @@ eAssigned
                        /\ UNCHANGED eErrs
                   ELSE /\ eErrs' = Append(eErrs,
                                errField(key, f.kind, CollapseErrs(es)))
                        /\ UNCHANGED eAssigned
                /\ UNCHANGED eOnSet
      [] f.kind = "map" ->
            LET parts == Split(value, params.separator)
                loop == MapLoop(parts, params.kvSeparator, <<>>, <<>>, <<>>)
                err == MapErr(loop, params.kvSeparator)
            IN  /\ eParsed' = eParsed \o ParseCall(v, loop.parsed)
                /\ eTodo' = rest
                /\ IF err.type = "nil"
                   THEN /\ eAssigned' = (v :> loop.result) @@ eAssigned
                        /\ UNCHANGED eErrs
                   ELSE /\ eErrs' = Append(eErrs, errField(key, f.kind, err))
                        /\ UNCHANGED eAssigned
                /\ UNCHANGED eOnSet

\* setValue: the lookup, the default, then SetResolved
SetValue(v, f, params, prefix, rest) ==
    LET got == getEnv(eEnv, ePrefix, params.key)
        usingDefault == ValueMissing(got)
        value == IF usingDefault THEN params.DefaultValue ELSE got.value
    IN  /\ eLookups' = eLookups \cup {keyWithPrefix(ePrefix, params.key)}
        /\ eAttempted' = eAttempted \cup {v}
        /\ IF ValueMissing(got) /\ ~params.defaultSet
           THEN /\ eErrs' = Append(eErrs,
                        errField(keyWithPrefix(ePrefix, params.key), f.kind,
                                 ErrValueNotSet))
                /\ eTodo' = rest
                /\ UNCHANGED <<eAssigned, eOnSet, eRaw, eParsed>>
           ELSE /\ eRaw' = (v :> [text |-> value, usingDefault |-> usingDefault])
                               @@ eRaw
                /\ SetResolved(v, f, params, prefix, value, usingDefault, rest)

\* one iteration of the loop of setStruct: setStructField on the next field
SetStructField ==
    /\ ePc = "decoding"
    /\ eTodo # <<>>
    /\ LET item == Head(eTodo)
           params == parseFieldParams(item.f, item.prefix)
       IN  IF ~item.f.exported \/ params.ignored
           THEN /\ eTodo' = Tail(eTodo)
                /\ UNCHANGED <<eErrs, eAssigned, eOnSet, eLookups,
                               eAttempted, eRaw, eParsed, eAllocated>>
           ELSE /\ eAllocated' = IF AllocatesTarget(item.f)
                                 THEN eAllocated \cup {item.path}
                                 ELSE eAllocated
                /\ SetValue(item.path, item.f, params, item.prefix,
                            Tail(eTodo))
    /\ UNCHANGED <<eSchema, eEnv, ePrefix, ePc, eResult, runVars, jobVars,
                   dataVars, wrapVars, regVars, srvVars, auxVars>>

\* parseInternal: setStruct has returned
ParseReturn ==
    /\ ePc = "decoding"
    /\ eTodo = <<>>
    /\ eResult' = ParseResult(eErrs)
    /\ ePc' = "returned"
    /\ UNCHANGED <<eSchema, eEnv, ePrefix, eTodo, eErrs, eAssigned, eOnSet,
                   eLookups, eAttempted, eRaw, eParsed, eAllocated, runVars,
                   jobVars, dataVars, wrapVars, regVars, srvVars, auxVars>>

EnvNext ==
    \/ SetStructField
    \/ ParseReturn

(***************************************************************************)
(* The parser registry (internal/param_registry.go).                       *)
(*                                                                         *)
(* A reflect.Type is a sequence of type constructors ending in a named     *)
(* type: <<"ptr", "slice", "int">> is *[]int.  The named types are         *)
(*   "int"    a primitive of kind Int,                                     *)
(*   "struct" a struct type with no parser of any sort,                    *)
(*   "TextV"  a struct type whose UnmarshalText has a value receiver,      *)
(*   "TextP"  a struct type whose UnmarshalText has a pointer receiver,    *)
(*   "Level"  slog.Level: kind Int, UnmarshalText on the pointer, and an   *)
(*            entry of the registry,                                       *)
(*   "File"   os.File: *os.File has an entry with a nil parser.            *)
(***************************************************************************)
NamedTypes == {"int", "struct", "TextV", "TextP", "Level", "File"}

Constructors == {"ptr", "slice"}

RECURSIVE ConstructorSeqs(_)
ConstructorSeqs(n) ==
    IF n = 0 THEN {<<>>}
    ELSE LET shorter == ConstructorSeqs(n - 1)
         IN  shorter \cup {<<c>> \o s : c \in Constructors,
                                        s \in {x \in shorter : Len(x) = n - 1}}

Types == {s \o <<b>> : s \in ConstructorSeqs(MaxPtrDepth), b \in NamedTypes}

\* reflect.Type.Kind
Kind(typ) ==
    CASE typ[1] = "ptr" -> "Pointer"
      [] typ[1] = "slice" -> "Slice"
      [] typ[1] \in {"int", "Level"} -> "Int"
      [] OTHER -> "Struct"

\* reflect.Type.Elem panics unless the kind is Array, Chan, Map, Pointer
\* or Slice
HasElem(typ) == Kind(typ) \in {"Pointer", "Slice"}

Elem(typ) == Tail(typ)

\* a parserFunc value
Parser(via, name, base, depth) ==
    [via |-> via, name |-> name, base |-> base, depth |-> depth]

NilParser == Parser("nil", "nil", <<>>, 0)

Registered(name) == Parser("registry", name, <<>>, 0)

defaultBuiltInParsers == [k \in {"Int"} |-> Parser("builtin", k, <<>>, 0)]

\* the package-level map literal
envRegistryLiteral ==
    (<<"Level">> :> Registered("parseLogLevel"))
        @@ (<<"ptr", "File">> :> NilParser)

\* the method sets: which types implement encoding.TextUnmarshaler
Implements(typ) ==
    \/ typ = <<"TextV">>
    \/ typ \in {<<"ptr", "TextV">>, <<"ptr", "TextP">>, <<"ptr", "Level">>}

RECURSIVE PointerBase(_)
PointerBase(typ) ==
    IF Kind(typ) = "Pointer" THEN PointerBase(Elem(typ)) ELSE typ

RECURSIVE PointerLevels(_)
PointerLevels(typ) ==
    IF Kind(typ) = "Pointer" THEN 1 + PointerLevels(Elem(typ)) ELSE 0

handleTextUnmarshaler(typ) ==
    LET base == PointerBase(typ)
        depth == PointerLevels(typ)
    IN  CASE Implements(base) ->
               [f |-> Parser("valueTextUnmarshaler", "", base, depth),
                ok |-> TRUE]
          [] Implements(<<"ptr">> \o base) ->
               [f |-> Parser("ptrTextUnmarshaler", "", base, depth),
                ok |-> TRUE]
          [] OTHER -> [f |-> NilParser, ok |-> FALSE]

Found(f, depth) ==
    [f |-> f, ptrDepth |-> depth, ok |-> TRUE, panicked |-> FALSE]

NotFound == [f |-> NilParser, ptrDepth |-> 0, ok |-> FALSE, panicked |-> FALSE]

ElemPanic == [f |-> NilParser, ptrDepth |-> 0, ok |-> FALSE, panicked |-> TRUE]

\* the loop of GetParseFunc: inner keeps the type the function was called
\* with, typ is the type the iteration looks at
RECURSIVE GetParseFuncLoop(_, _, _, _)
GetParseFuncLoop(reg, inner, typ, depth) ==
    CASE typ \in DOMAIN reg -> Found(reg[typ], depth)
      [] OTHER ->
        IF handleTextUnmarshaler(typ).ok
        THEN Found(handleTextUnmarshaler(typ).f, depth)
        ELSE IF Kind(typ) \in DOMAIN defaultBuiltInParsers
        THEN Found(defaultBuiltInParsers[Kind(typ)], depth)
        ELSE IF Kind(inner) # "Pointer" THEN NotFound
        ELSE IF ~HasElem(typ) THEN ElemPanic
        ELSE GetParseFuncLoop(reg, inner, Elem(typ), depth + 1)

GetParseFunc(reg, typ) == GetParseFuncLoop(reg, typ, typ, 0)

\* ---- the parsers synthesized for encoding.TextUnmarshaler ----
Raws == {"a", "b", "bad"}

\* UnmarshalText of the model's types: rejects "bad", otherwise stores the
\* text in its receiver
UnmarshalTextFails(raw) == raw = "bad"

Zero == "zero"

Value(levels, pointee) ==
    [outcome |-> "value", levels |-> levels, pointee |-> pointee]

ErrUnmarshalFunc == [outcome |-> "error", levels |-> 0, pointee |-> Zero]

NilCall == [outcome |-> "panic", levels |-> 0, pointee |-> Zero]

\* out = reflect.New(out.Type()) with its target set to out, times over
NewPointerTo(val, times) == [val EXCEPT !.levels = @ + times]

\* value := reflect.New(base).Elem(); value.Interface() boxes a copy of
\* value, so a method with a value receiver decodes into the copy
valueTextUnmarshaler(depth, raw) ==
    IF UnmarshalTextFails(raw) THEN ErrUnmarshalFunc
    ELSE IF depth = 0 THEN Value(0, Zero)
    ELSE NewPointerTo(Value(0, Zero), depth)

\* value := reflect.New(base); the method decodes through the pointer
ptrTextUnmarshaler(depth, raw) ==
    IF UnmarshalTextFails(raw) THEN ErrUnmarshalFunc
    ELSE IF depth = 0 THEN Value(0, raw)
    ELSE IF depth = 1 THEN Value(1, raw)
    ELSE NewPointerTo(Value(1, raw), depth - 1)

\* calling a parserFunc value; the functions of the registry and of the
\* built-in table are outside this model
Synthesized(f) == f.via \in {"valueTextUnmarshaler", "ptrTextUnmarshaler"}

ParserApply(f, raw) ==
    CASE f.via = "valueTextUnmarshaler" -> valueTextUnmarshaler(f.depth, raw)
      [] f.via = "ptrTextUnmarshaler" -> ptrTextUnmarshaler(f.depth, raw)
      [] OTHER -> NilCall

\* ---- registration ----
\* the types and functions RegisterEnvParser is instantiated with
RegTypes == {<<"struct">>, <<"ptr", "struct">>, <<"Level">>}

ParseFuncs == {"parseA", "parseB"}

RegisterPanicsNever(reg, typ) == FALSE

RegisterPanics(reg, typ) == typ \in DOMAIN reg

NoLookup ==
    [typ |-> <<>>, f |-> NilParser, ptrDepth |-> 0, ok |-> FALSE,
     panicked |-> FALSE]

NoValue == [raw |-> "", outcome |-> "none", levels |-> 0, pointee |-> Zero]

RegIdle ==
    /\ envRegistry = envRegistryLiteral
    /\ rCalls = <<>>
    /\ rLookup = NoLookup
    /\ rValue = NoValue

RegInit == RegIdle

\* RegisterEnvParser[T](parseFunc); a caller that recovers from the panic
\* goes on with the registry as the call left it
RegisterEnvParser ==
    /\ Len(rCalls) < MaxRegs
    /\ \E typ \in RegTypes, name \in ParseFuncs :
        /\ rCalls' = Append(rCalls,
                            [typ |-> typ, f |-> Registered(name),
                             panicked |-> RegisterPanics(envRegistry, typ)])
        /\ envRegistry' =
             IF RegisterPanics(envRegistry, typ) THEN envRegistry
             ELSE (typ :> Registered(name)) @@ envRegistry
    /\ rLookup' = NoLookup
    /\ rValue' = NoValue
    /\ UNCHANGED <<runVars, jobVars, dataVars, wrapVars, envVars, srvVars,
                   auxVars>>

\* GetParseFunc(typ); the function is pure, so one call per state of the
\* registry shows every result
Lookup ==
    /\ rLookup = NoLookup
    /\ \E typ \in Types :
        LET got == GetParseFunc(envRegistry, typ)
        IN  rLookup' = [typ |-> typ, f |-> got.f, ptrDepth |-> got.ptrDepth,
                        ok |-> got.ok, panicked |-> got.panicked]
    /\ rValue' = NoValue
    /\ UNCHANGED <<envRegistry, rCalls, runVars, jobVars, dataVars, wrapVars,
                   envVars, srvVars,
                   auxVars>>

\* parserFunc(ctx, raw) on the parser the last lookup returned
ParserCall ==
    /\ rLookup.ok
    /\ rValue = NoValue
    /\ Synthesized(rLookup.f) \/ rLookup.f = NilParser
    /\ \E raw \in Raws :
        LET out == ParserApply(rLookup.f, raw)
        IN  rValue' = [raw |-> raw, outcome |-> out.outcome,
                       levels |-> out.levels, pointee |-> out.pointee]
    /\ UNCHANGED <<envRegistry, rCalls, rLookup, runVars, jobVars, dataVars,
                   wrapVars, envVars, srvVars,
                   auxVars>>

RegNext ==
    \/ RegisterEnvParser
    \/ Lookup
    \/ ParserCall

(***************************************************************************)
(* Serve of httpServerWrapper and promhttpWrapper.                         *)
(*                                                                         *)
(* Serve starts a goroutine that waits for the context and then runs the   *)
(* graceful shutdown of the http.Server, runs the serve loop of the        *)
(* http.Server itself, and waits for the goroutine before it returns.      *)
(***************************************************************************)
ServeKinds == {"http", "prometheus"}

\* panic(...) of the guard on the listener
NotAcquiredPanic(kind) ==
    IF kind = "http" THEN "connection is not acquired" ELSE "uninitialized"

\* h.log.Info on a logger Configure has not set
NilLoggerPanic == "nil pointer dereference"

\* "if h.srv.Handler == nil { h.srv.Handler = http.NotFound }"
HandlerOrDefault(handler) == IF handler = "nil" THEN "NotFound" ELSE handler

\* "<-stopLocker" returns once the goroutine has closed the channel
StopLockerClosedAlways(g) == TRUE

StopLockerClosed(g) == g = "exited"

\* http.Server.Shutdown(timeoutCtx) returns nil once no connection is
\* active, or the error of timeoutCtx when the minute is over first
ShutdownResults(active) ==
    IF active = 0 THEN {"nil"} ELSE {"DeadlineExceeded"}

ServeIdle ==
    /\ sKind = "http"
    /\ sConfigured = FALSE
    /\ sConn = "nil"
    /\ sHandler = "nil"
    /\ sCtx = "live"
    /\ sPc = "idle"
    /\ sGo = "unborn"
    /\ sInShutdown = FALSE
    /\ sActive = 0
    /\ sShutdownErr = "nil"
    /\ sRet = "none"
    /\ sPanic = "none"

\* Serve(ctx) is called on a wrapper as its parser, Configure, Register and
\* Acquire have left it
ServeInit ==
    /\ sKind \in ServeKinds
    /\ sConfigured \in BOOLEAN
    /\ sConn \in {"nil", "open"}
    /\ sHandler \in {"nil", "user"}
    /\ sCtx = "live"
    /\ sPc = "call"
    /\ sGo = "unborn"
    /\ sInShutdown = FALSE
    /\ sActive = 0
    /\ sShutdownErr = "nil"
    /\ sRet = "none"
    /\ sPanic = "none"

\* the caller cancels ctx
CtxCancel ==
    /\ sPc \in {"call", "serve", "wait"}
    /\ sCtx = "live"
    /\ sCtx' = "done"
    /\ UNCHANGED <<sKind, sConfigured, sConn, sHandler, sPc, sGo, sInShutdown,
                   sActive, sShutdownErr, sRet, sPanic, runVars, jobVars,
                   dataVars, wrapVars, envVars, regVars,
                   auxVars>>

\* Serve up to the call of srv.Serve: the guard, the default handler, the
\* go statement and the first log line
ServeStart ==
    /\ sPc = "call"
    /\ IF sConn = "nil"
       THEN /\ sPc' = "panicked"
            /\ sPanic' = NotAcquiredPanic(sKind)
            /\ UNCHANGED <<sHandler, sGo>>
       ELSE /\ sHandler' = HandlerOrDefault(sHandler)
            /\ sGo' = "waitctx"
            /\ IF sConfigured
               THEN /\ sPc' = "serve"
                    /\ UNCHANGED sPanic
               ELSE /\ sPc' = "panicked"
                    /\ sPanic' = NilLoggerPanic
    /\ UNCHANGED <<sKind, sConfigured, sConn, sCtx, sInShutdown, sActive,
                   sShutdownErr, sRet, runVars, jobVars, dataVars, wrapVars,
                   envVars, regVars,
                   auxVars>>

\* the serve loop accepts a connection
ConnAccept ==
    /\ sPc = "serve"
    /\ ~sInShutdown
    /\ sActive < MaxConns
    /\ sActive' = sActive + 1
    /\ UNCHANGED <<sKind, sConfigured, sConn, sHandler, sCtx, sPc, sGo,
                   sInShutdown, sShutdownErr, sRet, sPanic, runVars, jobVars,
                   dataVars, wrapVars, envVars, regVars,
                   auxVars>>

\* a connection has served its request and is closed
ConnFinish ==
    /\ sActive > 0
    /\ sActive' = sActive - 1
    /\ UNCHANGED <<sKind, sConfigured, sConn, sHandler, sCtx, sPc, sGo,
                   sInShutdown, sShutdownErr, sRet, sPanic, runVars, jobVars,
                   dataVars, wrapVars, envVars, regVars,
                   auxVars>>

\* srv.Serve returns an error other than http.ErrServerClosed (Accept
\* failed while the server was not shutting down): return "serving ...: %w"
ServeFails ==
    /\ sPc = "serve"
    /\ ~sInShutdown
    /\ sPc' = "returned"
    /\ sRet' = "serveErr"
    /\ UNCHANGED <<sKind, sConfigured, sConn, sHandler, sCtx, sGo,
                   sInShutdown, sActive, sShutdownErr, sPanic, runVars,
                   jobVars, dataVars, wrapVars, envVars, regVars,
                   auxVars>>

\* srv.Serve returns http.ErrServerClosed: the server is shutting down
ServeClosed ==
    /\ sPc = "serve"
    /\ sInShutdown
    /\ sPc' = "wait"
    /\ UNCHANGED <<sKind, sConfigured, sConn, sHandler, sCtx, sGo,
                   sInShutdown, sActive, sShutdownErr, sRet, sPanic, runVars,
                   jobVars, dataVars, wrapVars, envVars, regVars,
                   auxVars>>

\* "<-stopLocker; return shutdownErr"
ServeReturn ==
    /\ sPc = "wait"
    /\ StopLockerClosed(sGo)
    /\ sPc' = "returned"
    /\ sRet' = sShutdownErr
    /\ UNCHANGED <<sKind, sConfigured, sConn, sHandler, sCtx, sGo,
                   sInShutdown, sActive, sShutdownErr, sPanic, runVars,
                   jobVars, dataVars, wrapVars, envVars, regVars,
                   auxVars>>

\* goroutine: "<-ctx.Done()" returns and srv.Shutdown(timeoutCtx) begins:
\* the server is marked as shutting down and its listener is closed
ShutdownBegin ==
    /\ sGo = "waitctx"
    /\ sCtx = "done"
    /\ sGo' = "shutdown"
    /\ sInShutdown' = TRUE
    /\ sConn' = "closed"
    /\ UNCHANGED <<sKind, sConfigured, sHandler, sCtx, sPc, sActive,
                   sShutdownErr, sRet, sPanic, runVars, jobVars, dataVars,
                   wrapVars, envVars, regVars,
                   auxVars>>

\* goroutine: srv.Shutdown returns, "*err = ..." and the deferred
\* close(stopLocker)
ShutdownEnd ==
    /\ sGo = "shutdown"
    /\ \E out \in ShutdownResults(sActive) : sShutdownErr' = out
    /\ sGo' = "exited"
    /\ UNCHANGED <<sKind, sConfigured, sConn, sHandler, sCtx, sPc,
                   sInShutdown, sActive, sRet, sPanic, runVars, jobVars,
                   dataVars, wrapVars, envVars, regVars,
                   auxVars>>

ServeMain ==
    \/ ServeStart
    \/ ServeClosed
    \/ ServeReturn

ServeGoroutine ==
    \/ ShutdownBegin
    \/ ShutdownEnd

ServeNext ==
    \/ CtxCancel
    \/ ServeStart
    \/ ConnAccept
    \/ ConnFinish
    \/ ServeFails
    \/ ServeClosed
    \/ ServeReturn
    \/ ShutdownBegin
    \/ ShutdownEnd

(***************************************************************************)
(* The metric server of the runtime (promhttpWrapper with the lower-case   *)
(* lifecycle methods configure, acquire and shutdown).                     *)
(*                                                                         *)
(* acquire opens the listener and starts a goroutine that runs the serve   *)
(* loop and closes finishServerChan when the loop has returned; shutdown   *)
(* runs the graceful shutdown of the http.Server, closes the listener and  *)
(* receives from finishServerChan.                                         *)
(***************************************************************************)
MetricIdle ==
    /\ mPc = "constructed"
    /\ mConn = "nil"
    /\ mGo = "none"
    /\ mInShutdown = FALSE
    /\ mConfigured = FALSE
    /\ mConns = [c \in 1..MaxConns |-> "none"]
    /\ mRet = "none"

\* the connections the server is serving a request on
ActiveConns == Cardinality({c \in 1..MaxConns : mConns[c] = "active"})

\* the wrapper newMetricServer returns: "log: nil", "conn: nil"
MetricInit == MetricIdle

\* configure: "g.log = log"
MetricConfigure ==
    /\ mPc = "constructed"
    /\ ~mConfigured
    /\ mConfigured' = TRUE
    /\ UNCHANGED <<metOthers, mPc, mConn, mGo, mInShutdown, mConns, mRet>>

\* acquire: Listen, g.log.MetricsStarted (a call on a nil interface value
\* when configure has not run), then "go func() { ... }()"
MetricAcquire ==
    /\ mPc = "constructed"
    /\ \E ok \in BOOLEAN :
         /\ mConn' = ConnAfterAcquire(ok)
         /\ mPc' = CASE ~ok -> "acquireFailed"
                     [] ok /\ ~mConfigured -> "panicked"
                     [] OTHER -> "acquired"
         /\ mGo' = IF ok /\ mConfigured THEN "started" ELSE "none"
    /\ UNCHANGED <<metOthers, mInShutdown, mConfigured, mConns, mRet>>

\* the goroutine enters g.srv.Serve(g.conn): Serve registers the listener
\* with the server, or returns ErrServerClosed when Shutdown has begun
\* (its deferred Close closes the listener)
MetricServeBegin ==
    /\ mGo = "started"
    /\ IF mInShutdown
       THEN mGo' = "served" /\ mConn' = ConnAfterClose(mConn)
       ELSE mGo' = "serving" /\ UNCHANGED mConn
    /\ UNCHANGED <<metOthers, mPc, mInShutdown, mConfigured, mConns, mRet>>

\* the serve loop accepts a connection, which reads its first request
MetricConnAccept ==
    /\ mGo = "serving"
    /\ ~mInShutdown
    /\ \E c \in 1..MaxConns :
         /\ mConns[c] = "none"
         /\ mConns' = [mConns EXCEPT ![c] = "active"]
    /\ UNCHANGED <<metOthers, mPc, mConn, mGo, mInShutdown, mConfigured, mRet>>

\* a connection finishes its request: it is kept alive, or closed (always
\* so once the server is shutting down)
MetricConnFinish ==
    /\ \E c \in 1..MaxConns :
         /\ mConns[c] = "active"
         /\ \E next \in IF mInShutdown THEN {"closed"} ELSE {"idle", "closed"} :
              mConns' = [mConns EXCEPT ![c] = next]
    /\ UNCHANGED <<metOthers, mPc, mConn, mGo, mInShutdown, mConfigured, mRet>>

\* a kept-alive connection reads its next request, or is closed by the
\* peer or by IdleTimeout
MetricConnIdle ==
    /\ \E c \in 1..MaxConns :
         /\ mConns[c] = "idle"
         /\ \E next \in {"active", "closed"} :
              mConns' = [mConns EXCEPT ![c] = next]
    /\ UNCHANGED <<metOthers, mPc, mConn, mGo, mInShutdown, mConfigured, mRet>>

\* Accept fails while the server is not shutting down: Serve returns an
\* error other than ErrServerClosed and the goroutine panics
MetricServeFails ==
    /\ mGo = "serving"
    /\ ~mInShutdown
    /\ mGo' = "panicked"
    /\ mConn' = ConnAfterClose(mConn)
    /\ UNCHANGED <<metOthers, mPc, mInShutdown, mConfigured, mConns, mRet>>

\* the serve loop notices the shutdown: Serve returns ErrServerClosed
MetricServeClosed ==
    /\ mGo = "serving"
    /\ mInShutdown
    /\ mGo' = "served"
    /\ UNCHANGED <<metOthers, mPc, mConn, mInShutdown, mConfigured,
                   mConns, mRet>>

\* g.log.MetricsStopped(g.addr); close(serverFinished)
MetricGoExit ==
    /\ mGo = "served"
    /\ mGo' = "exited"
    /\ UNCHANGED <<metOthers, mPc, mConn, mInShutdown, mConfigured,
                   mConns, mRet>>

\* shutdown is called and enters g.srv.Shutdown(timeoutCtx), which marks the
\* server as shutting down and closes the listeners Serve has registered
\* and the idle connections
MetricShutdownBegin ==
    /\ mPc = "acquired"
    /\ mGo # "panicked"
    /\ mPc' = "srvShutdown"
    /\ mInShutdown' = TRUE
    /\ mConn' = IF mGo = "serving" THEN ConnAfterClose(mConn) ELSE mConn
    /\ mConns' = [c \in 1..MaxConns |->
                    IF mConns[c] = "idle" THEN "closed" ELSE mConns[c]]
    /\ UNCHANGED <<metOthers, mGo, mConfigured, mRet>>

\* g.srv.Shutdown returns: nil once no connection is active, the error of
\* timeoutCtx when the minute is over first
MetricShutdownEnd ==
    /\ mPc = "srvShutdown"
    /\ mGo # "panicked"
    /\ \E shutdownErr \in ShutdownResults(ActiveConns) :
         IF shutdownErr # "nil"
         THEN mPc' = "returned" /\ mRet' = "err"
         ELSE mPc' = "close" /\ UNCHANGED mRet
    /\ UNCHANGED <<metOthers, mConn, mGo, mInShutdown, mConfigured, mConns>>

\* "err = g.conn.Close()" and the test on the text of the error
MetricClose ==
    /\ mPc = "close"
    /\ mGo # "panicked"
    /\ \E closeErr \in CloseResults(mConn) :
         IF closeErr = "nil"
         THEN mPc' = "receive" /\ UNCHANGED mRet
         ELSE /\ mPc' = "returned"
              /\ mRet' = ShutdownReturn("prometheus", closeErr)
    /\ mConn' = ConnAfterClose(mConn)
    /\ UNCHANGED <<metOthers, mGo, mInShutdown, mConfigured, mConns>>

\* "<-g.finishServerChan" returns once the channel is closed
MetricReceive ==
    /\ mPc = "receive"
    /\ mGo = "exited"
    /\ mPc' = "returned"
    /\ mRet' = "nil"
    /\ UNCHANGED <<metOthers, mConn, mGo, mInShutdown, mConfigured, mConns>>

MetricMain ==
    \/ MetricConfigure
    \/ MetricAcquire
    \/ MetricShutdownBegin
    \/ MetricShutdownEnd
    \/ MetricClose
    \/ MetricReceive

MetricGoroutine ==
    \/ MetricServeBegin
    \/ MetricServeClosed
    \/ MetricGoExit

MetricNext ==
    \/ MetricMain
    \/ MetricGoroutine
    \/ MetricConnAccept
    \/ MetricConnFinish
    \/ MetricConnIdle
    \/ MetricServeFails

(***************************************************************************)
(* The multi-scheme secret engine (contrib/secrets/multi.go).              *)
(*                                                                         *)
(* Any number of goroutines call Close and GetSecret on one engine; a step *)
(* of a call is one access to the atomic flag or one call into a storage.  *)
(***************************************************************************)
Callers == 1..MaxCallers

\* the keys of multiEngine.storages
Schemes == {"vault", "file"}

\* the addresses GetSecret is called with
Addrs == {"", "data:,x", "data:bad", "vault:key", "s3:key"}

\* url.Parse(addr).Scheme for the addresses above
Scheme(addr) ==
    CASE addr = "vault:key" -> "vault"
      [] addr = "s3:key" -> "s3"
      [] OTHER -> ""

HasPrefixData(addr) == addr \in {"data:,x", "data:bad"}

\* GetSecret past the test of the flag; storageOk tells whether the
\* storage returns the secret
GetSecretResult(addr, storageOk) ==
    CASE addr = "" -> "EmptySecret"
      [] HasPrefixData(addr) ->
            IF addr = "data:bad" THEN "decoding data URL" ELSE "PlainSecret"
      [] Scheme(addr) \notin Schemes -> "no storage for scheme"
      [] OTHER -> IF storageOk THEN "Secret"
                  ELSE "failed to get secret from storage"

\* "e.closed.CompareAndSwap(false, true)": the new value of the flag and
\* whether the swap happened
CompareAndSwap(flag) == [flag |-> TRUE, swapped |-> ~flag]

SecCall(op, c, out, closedStorages, start) ==
    [op |-> op, caller |-> c, out |-> out, closedStorages |-> closedStorages,
     start |-> start]

ClosesReturned == Cardinality({k \in 1..Len(secCalls) : secCalls[k].op = "Close"})

InFlight == Cardinality({c \in Callers : tPc[c] # "idle"})

SecIdle ==
    /\ closed = FALSE
    /\ storageCloses = [s \in Schemes |-> 0]
    /\ tPc = [c \in Callers |-> "idle"]
    /\ tTodo = [c \in Callers |-> {}]
    /\ tErrs = [c \in Callers |-> {}]
    /\ tStart = [c \in Callers |-> 0]
    /\ secCalls = <<>>

\* the engine BuildSecretEngine returns for a map with two schemes
SecInit == SecIdle

\* a goroutine calls Close or GetSecret
SecBegin(c) ==
    /\ tPc[c] = "idle"
    /\ Len(secCalls) + InFlight < MaxCalls
    /\ \E at \in {"cas", "load"} : tPc' = [tPc EXCEPT ![c] = at]
    /\ tStart' = [tStart EXCEPT ![c] = ClosesReturned]
    /\ UNCHANGED <<secOthers, closed, storageCloses, tTodo, tErrs, secCalls>>

\* Close: "if e.closed.CompareAndSwap(false, true) { return nil }"
CloseSwap(c) ==
    /\ tPc[c] = "cas"
    /\ closed' = CompareAndSwap(closed).flag
    /\ IF CompareAndSwap(closed).swapped
       THEN /\ tPc' = [tPc EXCEPT ![c] = "idle"]
            /\ secCalls' = Append(secCalls,
                                  SecCall("Close", c, "nil", {}, tStart[c]))
            /\ UNCHANGED <<tTodo, tErrs>>
       ELSE /\ tPc' = [tPc EXCEPT ![c] = "range"]
            /\ tTodo' = [tTodo EXCEPT ![c] = Schemes]
            /\ tErrs' = [tErrs EXCEPT ![c] = {}]
            /\ UNCHANGED secCalls
    /\ UNCHANGED <<secOthers, storageCloses, tStart>>

\* Close: one round of "for _, s := range e.storages", in the order the
\* map yields
CloseStorage(c) ==
    /\ tPc[c] = "range"
    /\ \E s \in tTodo[c], failed \in BOOLEAN :
         /\ storageCloses' = [storageCloses EXCEPT ![s] = @ + 1]
         /\ tTodo' = [tTodo EXCEPT ![c] = @ \ {s}]
         /\ tErrs' = [tErrs EXCEPT ![c] = IF failed THEN @ \cup {s} ELSE @]
    /\ UNCHANGED <<secOthers, closed, tPc, tStart, secCalls>>

\* Close: "return errors.Join(errs...)"
CloseReturn(c) ==
    /\ tPc[c] = "range"
    /\ tTodo[c] = {}
    /\ tPc' = [tPc EXCEPT ![c] = "idle"]
    /\ secCalls' = Append(secCalls,
                          SecCall("Close", c,
                                  IF tErrs[c] = {} THEN "nil" ELSE "err",
                                  Schemes, tStart[c]))
    /\ UNCHANGED <<secOthers, closed, storageCloses, tTodo, tErrs, tStart>>

\* GetSecret: "if e.closed.Load() { return nil, io.ErrClosedPipe }"
GetSecretLoad(c) ==
    /\ tPc[c] = "load"
    /\ IF closed
       THEN /\ tPc' = [tPc EXCEPT ![c] = "idle"]
            /\ secCalls' = Append(secCalls,
                     SecCall("GetSecret", c, "ErrClosedPipe", {}, tStart[c]))
       ELSE /\ tPc' = [tPc EXCEPT ![c] = "get"]
            /\ UNCHANGED secCalls
    /\ UNCHANGED <<secOthers, closed, storageCloses, tTodo, tErrs, tStart>>

\* GetSecret: the rest of the function
GetSecretRest(c) ==
    /\ tPc[c] = "get"
    /\ tPc' = [tPc EXCEPT ![c] = "idle"]
    /\ \E addr \in Addrs, storageOk \in BOOLEAN :
         secCalls' = Append(secCalls,
                            SecCall("GetSecret", c,
                                    GetSecretResult(addr, storageOk), {},
                                    tStart[c]))
    /\ UNCHANGED <<secOthers, closed, storageCloses, tTodo, tErrs, tStart>>

SecNext ==
    \E c \in Callers :
        \/ SecBegin(c)
        \/ CloseSwap(c)
        \/ CloseStorage(c)
        \/ CloseReturn(c)
        \/ GetSecretLoad(c)
        \/ GetSecretRest(c)

(***************************************************************************)
(* Specifications.                                                         *)
(***************************************************************************)
AuxIdle == MetricIdle /\ SecIdle

ExtIdle == WrapIdle /\ EnvIdle /\ RegIdle /\ ServeIdle /\ AuxIdle

InitRun == JobsIdle /\ ExtIdle /\ RunInit

SpecRun == InitRun /\ [][RunNext]_vars

InitJobs == RunIdle /\ ExtIdle /\ JobsInit

SpecJobs == InitJobs /\ [][JobsNext]_vars

\* the Go scheduler runs every runnable goroutine; the caller need not cancel
InitScenario == RunIdle /\ ExtIdle /\ JobsInitWith(ScenarioKinds)

InitWrap ==
    RunIdle /\ JobsIdle /\ EnvIdle /\ RegIdle /\ ServeIdle /\ AuxIdle
        /\ WrapInit

SpecWrap == InitWrap /\ [][WrapNext]_vars

InitEnv ==
    RunIdle /\ JobsIdle /\ WrapIdle /\ RegIdle /\ ServeIdle /\ AuxIdle
        /\ EnvInit

SpecEnv == InitEnv /\ [][EnvNext]_vars

InitReg ==
    RunIdle /\ JobsIdle /\ WrapIdle /\ EnvIdle /\ ServeIdle /\ AuxIdle
        /\ RegInit

SpecReg == InitReg /\ [][RegNext]_vars

InitServe ==
    RunIdle /\ JobsIdle /\ WrapIdle /\ EnvIdle /\ RegIdle /\ AuxIdle
        /\ ServeInit

\* the Go scheduler runs Serve and its goroutine whenever they can step
SpecServe ==
    /\ InitServe
    /\ [][ServeNext]_vars
    /\ WF_vars(ServeMain)
    /\ WF_vars(ServeGoroutine)

CoreIdle ==
    RunIdle /\ JobsIdle /\ WrapIdle /\ EnvIdle /\ RegIdle /\ ServeIdle

InitMetric == CoreIdle /\ SecIdle /\ MetricInit

\* the Go scheduler runs the caller and the goroutine whenever they can step
SpecMetric ==
    /\ InitMetric
    /\ [][MetricNext]_vars
    /\ WF_vars(MetricMain)
    /\ WF_vars(MetricGoroutine)

InitSec == CoreIdle /\ MetricIdle /\ SecInit

SpecSec == InitSec /\ [][SecNext]_vars

SpecJobsFair ==
    /\ InitScenario
    /\ [][JobsNext]_vars
    /\ WF_vars(RunJobsMain)
    /\ \A i \in JobIds : WF_vars(Goroutine(i))

(***************************************************************************)
(* Properties of Run.                                                      *)
(***************************************************************************)
Params == {configurations[i] : i \in 1..Len(configurations)}

CallIdx == 1..Len(calls)

Invoked(op, p) == \E k \in CallIdx : calls[k].op = op /\ calls[k].p = p

Succeeded(op, p) == \E k \in CallIdx : calls[k] = Call(op, p, FALSE)

Times(op, p) ==
    Cardinality({k \in CallIdx : calls[k].op = op /\ calls[k].p = p})

ConfigureFailed ==
    \E k \in CallIdx : calls[k].op = "Configure" /\ calls[k].err

\* C1: when Run has returned, every resource parameter whose Acquire
\* succeeded has had Shutdown invoked exactly once (no orphaned resource).
C1_NoOrphanedResource ==
    pc = "returned" =>
        \A p \in Params : Succeeded("Acquire", p) => Times("Shutdown", p) = 1

\* C2: once a Configure has returned an error, no Acquire and no user action
\* is ever invoked, Run does not go past the configure phase, and the value
\* it returns is 1.
C2_ConfigureFailureAborts ==
    ConfigureFailed =>
        /\ \A k \in CallIdx : calls[k].op \notin {"Acquire", "ActionInvoke"}
        /\ pc \in {"configure", "returned"}
        /\ pc = "returned" => exitCode = 1

C2_Witness ==
    /\ pc = "returned"
    /\ ConfigureFailed
    /\ Succeeded("Configure", 1)
    /\ Len(configurations) >= 2

\* C3: per resource parameter the lifecycle calls follow Configure ->
\* Acquire -> Shutdown: Acquire only after the parameter's Configure returned
\* without error, Shutdown only after its Acquire was invoked, and no method
\* is invoked twice on the same parameter.
C3_LifecycleOrder ==
    \A k \in CallIdx :
        LET c == calls[k] IN
        c.p \in Params /\ c.op \in {"Configure", "Acquire", "Shutdown"} =>
            /\ c.op = "Acquire" =>
                   \E j \in 1..(k - 1) : calls[j] = Call("Configure", c.p, FALSE)
            /\ c.op = "Shutdown" =>
                   \E j \in 1..(k - 1) :
                       calls[j].op = "Acquire" /\ calls[j].p = c.p
            /\ \A j \in 1..(k - 1) :
                   ~(calls[j].op = c.op /\ calls[j].p = c.p)

C3_Witness ==
    /\ Len(configurations) >= 2
    /\ \A p \in Params :
           /\ Invoked("Configure", p)
           /\ Invoked("Acquire", p)
           /\ Invoked("Shutdown", p)

\* C9: the user action is invoked only after Configure and Acquire have been
\* invoked and have succeeded on every resource parameter (no lifecycle call
\* before it failed), and every Shutdown comes after the action's return.
C9_ActionBetweenAcquireAndShutdown ==
    \A k \in CallIdx :
        /\ calls[k].op = "ActionInvoke" =>
               /\ \A p \in Params :
                      \E i, j \in 1..(k - 1) :
                          /\ i < j
                          /\ calls[i] = Call("Configure", p, FALSE)
                          /\ calls[j] = Call("Acquire", p, FALSE)
               /\ \A j \in 1..(k - 1) : ~calls[j].err
        /\ calls[k].op = "Shutdown" =>
               \E j \in 1..(k - 1) : calls[j].op = "ActionReturn"

C9_Witness ==
    /\ Len(configurations) >= 2
    /\ Invoked("ActionReturn", 0)
    /\ \A p \in Params : Invoked("Shutdown", p)

\* C10 as stated: if a was acquired before b, then b is shut down before a
\* (parameters are shut down in the reverse of the acquisition order).
C10_ReverseOrder ==
    \A i, j, k, l \in CallIdx :
        ( /\ calls[i].op = "Acquire" /\ calls[j].op = "Acquire"
          /\ calls[k].op = "Shutdown" /\ calls[l].op = "Shutdown"
          /\ calls[i].p \in Params /\ calls[j].p \in Params
          /\ calls[k].p = calls[i].p /\ calls[l].p = calls[j].p
          /\ i < j )
        => l < k

\* C10 amended: if a was acquired before b, then a is shut down before b
\* (parameters are shut down in the same order in which they were acquired).
C10_SameOrder ==
    \A i, j, k, l \in CallIdx :
        ( /\ calls[i].op = "Acquire" /\ calls[j].op = "Acquire"
          /\ calls[k].op = "Shutdown" /\ calls[l].op = "Shutdown"
          /\ calls[i].p \in Params /\ calls[j].p \in Params
          /\ calls[k].p = calls[i].p /\ calls[l].p = calls[j].p
          /\ i < j )
        => k < l

C10_Witness ==
    /\ Len(configurations) >= 2
    /\ \A p \in Params : Invoked("Acquire", p) /\ Invoked("Shutdown", p)
    /\ pc = "returned"

\* Setup has finished: the phase data is built
SetupDone == cfgData # {}

\* C25: with no metrics address (no metric server), Run makes no lifecycle
\* call on a metric server and, once its setup is done, goes through the
\* phases of the resource parameters without aborting.
C25_MetricsDisabled ==
    (variant = "contrib" /\ ~metricServer) =>
        /\ \A k \in CallIdx : calls[k].p # 0
        /\ SetupDone => pc # "panicked"

\* with a metric server, Run does not abort after its setup
MetricsEnabledNoAbort ==
    (variant = "contrib" /\ metricServer /\ SetupDone) => pc # "panicked"

\* C27: after a failed Acquire on parameter J, no Acquire is invoked on a
\* parameter that comes after J and no Shutdown on J or on a parameter that
\* comes after it.
C27_AcquireStopsAtFailure ==
    \A k \in CallIdx :
        (calls[k].op = "Acquire" /\ calls[k].err /\ calls[k].p # 0) =>
            \A m \in CallIdx :
                /\ ~(m > k /\ calls[m].op = "Acquire"
                        /\ calls[m].p > calls[k].p)
                /\ ~(calls[m].op = "Shutdown" /\ calls[m].p >= calls[k].p)

\* the part that holds: no Shutdown at all follows a failed Acquire
NoShutdownAfterFailedAcquire ==
    \A k \in CallIdx :
        (calls[k].op = "Acquire" /\ calls[k].err) =>
            \A m \in CallIdx : calls[m].op # "Shutdown"

\* Run has left the loop over the resource parameters of the configure phase
ConfigureLoopOver ==
    \/ pc \in {"acquire_metric", "acquire", "action", "in_action",
               "shutdown_metric", "shutdown", "returned"}
    \/ pc = "panicked" /\ \E k \in CallIdx : calls[k].op = "Acquire"

FailedIn(op) == {calls[k].p : k \in {j \in CallIdx : calls[j].op = op /\ calls[j].err}}

SeqRange(seq) == {seq[k] : k \in 1..Len(seq)}

\* C32: when Run has left the configure loop, Configure has been invoked
\* exactly once on every resource parameter, whichever of them failed; the
\* failures collected are all those of the phase, and with any of them Run
\* has returned 1 without an Acquire.
C32_ConfigureVisitsAll ==
    ConfigureLoopOver =>
        /\ \A p \in Params : Times("Configure", p) = 1
        /\ SeqRange(configErrs) = FailedIn("Configure")
        /\ Len(configErrs) = Cardinality(FailedIn("Configure"))
        /\ ConfigureFailed =>
              /\ pc = "returned"
              /\ exitCode = 1
              /\ \A k \in CallIdx : calls[k].op # "Acquire"

C32_Witness ==
    /\ pc = "returned"
    /\ Len(configurations) >= 2
    /\ \E k, m \in CallIdx :
         /\ k < m
         /\ calls[k] = Call("Configure", configurations[1], TRUE)
         /\ calls[m] = Call("Configure", configurations[2], TRUE)
    /\ Len(configErrs) = 2

ActionReturned == \E k \in CallIdx : calls[k].op = "ActionReturn"

\* C33: when Run has ended after the user action returned, Shutdown has been
\* invoked exactly once on every resource parameter, whichever Shutdown
\* returned an error.
C33_ShutdownVisitsAll ==
    (pc \in {"returned", "panicked"} /\ ActionReturned) =>
        \A p \in Params : Times("Shutdown", p) = 1

\* the same for the copy of Run in contrib/runtime
ContribShutdownVisitsAll ==
    (variant = "contrib" /\ pc \in {"returned", "panicked"}
        /\ ActionReturned) =>
        \A p \in Params : Times("Shutdown", p) = 1

AnyFailed(op) == \E k \in CallIdx : calls[k].op = op /\ calls[k].err

AllSucceeded ==
    /\ ActionReturned
    /\ \A k \in CallIdx : ~calls[k].err

PhasesVisitInRegistrationOrder ==
    \A j, k \in CallIdx :
        (j < k /\ calls[j].op = calls[k].op /\ calls[j].p > 0 /\ calls[k].p > 0)
            => \E a, b \in 1..Len(configurations) :
                  /\ configurations[a] = calls[j].p
                  /\ configurations[b] = calls[k].p
                  /\ a < b

(***************************************************************************)
(* Properties of RunJobs.                                                  *)
(***************************************************************************)
Started == 1..Len(jobs)

IsCancellation(e) ==
    ErrorsIs(e, "Canceled") \/ ErrorsIs(e, "DeadlineExceeded")

IsFailure(e) == e # "nil" /\ ~IsCancellation(e)

Occurrences(seq, e) == Cardinality({k \in 1..Len(seq) : seq[k] = e})

JobReturned(i) == gpc[i] \notin {"unborn", "run"}

\* C4: at the moment RunJobs has returned, every one of its jobs has
\* returned and its goroutine has finished.
C4_WaitsForEveryJob ==
    rjPc = "done" => \A i \in Started : JobReturned(i) /\ i \in counted

C4_Witness ==
    /\ rjPc = "done"
    /\ Len(jobs) >= 2
    /\ \E i \in Started : jobs[i].kind = "block"

\* C5: a job that returned a non-cancellation error is counted as finished
\* (wg.Done) only after the derived context has been cancelled.
C5_CancelBeforeDone ==
    \A i \in Started :
        i \in counted /\ IsFailure(ret[i]) => jobCtxErr # "nil"

C5_Witness ==
    \E i, j \in Started :
        /\ i \in counted
        /\ IsFailure(ret[i])
        /\ gpc[j] = "run"
        /\ jobs[j].kind = "block"
        /\ parentErr = "nil"

\* C6: when RunJobs has returned, the errors joined into its result are
\* exactly the non-cancellation errors the jobs returned, each as many times
\* as jobs returned it; the result is nil (empty) when there are none.
C6_ResultIsExactlyTheFailures ==
    rjPc = "done" =>
        \A e \in Errors :
            Occurrences(result, e) =
                IF IsFailure(e)
                THEN Cardinality({i \in Started : ret[i] = e})
                ELSE 0

C6_Witness ==
    /\ rjPc = "done"
    /\ Len(jobs) >= 2
    /\ \A i \in Started : IsFailure(ret[i])
    /\ Len(result) = Len(jobs)

\* C7: neither the collected errors nor the result ever hold an error that
\* is context.Canceled or context.DeadlineExceeded; when every job returned
\* nil or a cancellation-class error, RunJobs returns nil.
C7_NoCancellationInResult ==
    /\ \A k \in 1..Len(errs) : ~IsCancellation(errs[k])
    /\ \A k \in 1..Len(result) : ~IsCancellation(result[k])
    /\ rjPc = "done" /\ (\A i \in Started : ~IsFailure(ret[i]))
           => result = <<>>

C7_Witness ==
    /\ rjPc = "done"
    /\ \E i \in Started : ret[i] = "DeadlineExceeded"
    /\ \E i \in Started : ret[i] = "WrappedCanceled"
    /\ result = <<>>

\* every job blocks until its context is done and returns its error
AllBlock == \A i \in Started : jobs[i].kind = "block"

\* C24: while RunJobs runs, the derived context is done whenever the
\* caller's context is; when the caller has cancelled and every job returned
\* a cancellation-class error, RunJobs returns nil; and jobs that block on
\* their context all return once the caller cancels, so that RunJobs
\* eventually returns nil.
C24_CallerCancelPropagates ==
    /\ [](parentErr # "nil" /\ rjPc \in {"spawn", "done"}
            => jobCtxErr # "nil")
    /\ [](rjPc = "done" /\ parentErr # "nil"
            /\ (\A i \in Started : IsCancellation(ret[i]))
            => result = <<>>)
    /\ AllBlock =>
         [](parentErr # "nil" => <>(rjPc = "done" /\ result = <<>>))

C24_Witness ==
    /\ rjPc = "done"
    /\ Len(jobs) >= 2
    /\ AllBlock
    /\ parentErr = "DeadlineExceeded"
    /\ \A i \in Started : ret[i] = "DeadlineExceeded" /\ i \in counted
    /\ result = <<>>

InResult(e) == \E k \in 1..Len(result) : result[k] = e

Finished(i) == i \in counted /\ ret[i] # "nil"

\* C28 as stated: an error left out of the result was returned when the
\* derived context was already done; an error returned while it was live is
\* in the result and has cancelled the derived context.
C28_OmittedOnlyAfterCancel ==
    \A i \in Started :
        Finished(i) =>
            /\ (rjPc = "done" /\ ~InResult(ret[i])) => seenDone[i]
            /\ ~seenDone[i] =>
                 /\ jobCtxErr # "nil"
                 /\ rjPc = "done" => InResult(ret[i])

\* C28 amended: the errors left out of the result are exactly the
\* cancellation-class ones, whether the derived context was done or live
\* when the job returned; every other error is in the result and has
\* cancelled the derived context.
C28_OmittedAreCancellations ==
    \A i \in Started :
        Finished(i) =>
            /\ rjPc = "done" => (~InResult(ret[i]) <=> IsCancellation(ret[i]))
            /\ IsFailure(ret[i]) => jobCtxErr # "nil"

C28_Witness ==
    /\ rjPc = "done"
    /\ parentErr = "nil"
    /\ \E i, j \in Started :
         /\ ret[i] = "DeadlineExceeded"
         /\ ~seenDone[i]
         /\ ret[j] = "E1"
    /\ result = <<"E1">>

JobVal(K) == IF K \in Started THEN jobs[K].val ELSE "nil"

\* the scenario of C8: job K returns a non-cancellation error, every other
\* job blocks until its context is done and returns the context's error
OneFailsOthersBlock(K) ==
    /\ K \in Started
    /\ jobs[K].kind = "ret"
    /\ IsFailure(JobVal(K))
    /\ \A i \in Started \ {K} : jobs[i].kind = "block"

\* C8: in that scenario RunJobs eventually returns, and its result holds
\* exactly job K's error.
C8_OneFailureTerminates ==
    \A K \in JobIds :
        OneFailsOthersBlock(K) =>
            /\ <>(rjPc = "done")
            /\ [](rjPc = "done" => result = <<JobVal(K)>>)

C8_Witness ==
    /\ rjPc = "done"
    /\ Len(jobs) >= 2
    /\ \E K \in JobIds : OneFailsOthersBlock(K) /\ result = <<JobVal(K)>>
    /\ parentErr = "nil"

\* C12: the phase data grows monotonically: whatever cfgData carried is
\* carried by the AcquireData every Acquire receives, and whatever that
\* carried is carried by the ShutdownData every Shutdown receives.
C12_PhaseDataGrows ==
    /\ (\E k \in CallIdx : calls[k].op = "Acquire" /\ calls[k].p # 0)
           => cfgData \subseteq acquireData
    /\ (\E k \in CallIdx : calls[k].op = "Shutdown" /\ calls[k].p # 0)
           => /\ acquireData \subseteq shutdownData
              /\ cfgData \subseteq shutdownData

(***************************************************************************)
(* Properties of the resource parameters.                                  *)
(***************************************************************************)
WrapCallIdx == 1..Len(wCalls)

\* C11: Shutdown on an instance whose listener is still nil (Acquire never
\* invoked, or failed) returns normally; it never panics on the nil listener.
C11_ShutdownToleratesNil ==
    \A k \in WrapCallIdx :
        (wCalls[k].op = "Shutdown" /\ wCalls[k].conn = "nil")
            => wCalls[k].out # "panic"

(***************************************************************************)
(* Properties of env.Parse.                                                *)
(***************************************************************************)
\* every field of the record type, nested ones included, by path
RECURSIVE PathsOf(_, _)
PathsOf(fields, parent) ==
    UNION {{Append(parent, i)} \cup PathsOf(fields[i].fields, Append(parent, i))
           : i \in 1..Len(fields)}

AllPaths == PathsOf(eSchema, <<>>)

RECURSIVE FieldIn(_, _)
FieldIn(fields, path) ==
    IF Len(path) = 1
    THEN fields[path[1]]
    ELSE FieldIn(fields[path[1]].fields, Tail(path))

FieldAt(path) == FieldIn(eSchema, path)

PathPrefixes(path) == {SubSeq(path, 1, n) : n \in 1..Len(path)}

\* the field and every record enclosing it are exported and not ignored
Settable(path) ==
    \A q \in PathPrefixes(path) : FieldAt(q).exported /\ FieldAt(q).key # "-"

IsLeaf(path) == FieldAt(path).kind # "struct"

\* the prefix, the group-prefixes of the enclosing records, the own key
RECURSIVE KeyIn(_, _, _)
KeyIn(fields, path, acc) ==
    IF Len(path) = 1
    THEN acc \o fields[path[1]].key
    ELSE KeyIn(fields[path[1]].fields, Tail(path),
               acc \o fields[path[1]].gprefix)

KeyOf(path) == KeyIn(eSchema, path, ePrefix)

\* the key an ignored field would have had: its name in place of "-"
RECURSIVE NameKeyIn(_, _, _)
NameKeyIn(fields, path, acc) ==
    IF Len(path) = 1
    THEN acc \o fields[path[1]].name
    ELSE NameKeyIn(fields[path[1]].fields, Tail(path),
                   acc \o fields[path[1]].gprefix)

NameKeyOf(path) == NameKeyIn(eSchema, path, ePrefix)

ErrIdx == 1..Len(eErrs)

ErrorsFor(path) == {k \in ErrIdx : eErrs[k].Key = KeyOf(path)}

ParsesFor(path) == SelectSeq(eParsed, LAMBDA c : c.path = path)

\* the environment holds a non-empty text under the field's key
EnvHas(path) == KeyOf(path) \in DOMAIN eEnv /\ eEnv[KeyOf(path)] # <<>>

\* the text the field is to be decoded from
TextFor(path) ==
    IF EnvHas(path) THEN eEnv[KeyOf(path)] ELSE FieldAt(path).default

HasText(path) == EnvHas(path) \/ FieldAt(path).defaultSet

FailingParts(parts) == {i \in 1..Len(parts) : ~ParseInt(parts[i]).ok}

MalformedItems(parts) == {i \in 1..Len(parts) : ~HasSep(parts[i], ":")}

BadItems(parts) ==
    {i \in 1..Len(parts) :
        \/ ~HasSep(parts[i], ":")
        \/ ~ParseInt(SplitN2(parts[i], ":")[1]).ok
        \/ ~ParseInt(SplitN2(parts[i], ":")[2]).ok}

\* the text decodes without any error for a field of that kind
Decodes(kind, text) ==
    CASE kind = "int" -> ParseInt(text).ok
      [] kind = "slice" -> FailingParts(Split(text, ",")) = {}
      [] kind = "map" -> BadItems(Split(text, ",")) = {}
      [] kind = "struct" -> TRUE

FieldFails(path) == ~HasText(path) \/ ~Decodes(FieldAt(path).kind, TextFor(path))

\* C13: decoding never short-circuits: when Parse has returned, every
\* settable, non-ignored field has been attempted, every failing one has
\* exactly one field error, and every other one has been assigned.
C13_NoShortCircuit ==
    ePc = "returned" =>
        \A v \in AllPaths :
            Settable(v) =>
                /\ v \in eAttempted
                /\ IsLeaf(v) =>
                      IF FieldFails(v)
                      THEN /\ Cardinality(ErrorsFor(v)) = 1
                           /\ v \notin DOMAIN eAssigned
                      ELSE /\ ErrorsFor(v) = {}
                           /\ v \in DOMAIN eAssigned

\* every record enclosing the field has been entered by the decoder
Entered(path) ==
    \A q \in PathPrefixes(path) : q # path => q \in DOMAIN eRaw

\* the same for the fields the decoder has got to
EnteredNoShortCircuit ==
    ePc = "returned" =>
        \A v \in AllPaths :
            (Settable(v) /\ Entered(v)) =>
                /\ v \in eAttempted
                /\ IsLeaf(v) =>
                      IF FieldFails(v)
                      THEN /\ Cardinality(ErrorsFor(v)) = 1
                           /\ v \notin DOMAIN eAssigned
                      ELSE /\ ErrorsFor(v) = {}
                           /\ v \in DOMAIN eAssigned

\* C14: a leaf field with no declared default whose key is absent from, or
\* empty in, the environment has exactly one field error, which wraps
\* ErrValueNotSet and carries the field's key; its parser is never invoked.
C14_ValueNotSet ==
    ePc = "returned" =>
        \A v \in AllPaths :
            (Settable(v) /\ IsLeaf(v) /\ ~HasText(v)) =>
                /\ Cardinality(ErrorsFor(v)) = 1
                /\ \A k \in ErrorsFor(v) : eErrs[k].Err = ErrValueNotSet
                /\ ParsesFor(v) = <<>>

EnteredValueNotSet ==
    ePc = "returned" =>
        \A v \in AllPaths :
            (Settable(v) /\ Entered(v) /\ IsLeaf(v) /\ ~HasText(v)) =>
                /\ Cardinality(ErrorsFor(v)) = 1
                /\ \A k \in ErrorsFor(v) : eErrs[k].Err = ErrValueNotSet
                /\ ParsesFor(v) = <<>>

OnSetIdx == 1..Len(eOnSet)

OnSetFor(path) == {k \in OnSetIdx : eOnSet[k].key = KeyOf(path)}

ObservedOnce(v) ==
    IF v \in DOMAIN eAssigned
    THEN /\ Cardinality(OnSetFor(v)) = 1
         /\ \A k \in OnSetFor(v) : eOnSet[k].value = eAssigned[v]
    ELSE OnSetFor(v) = {}

\* C30: once decode has returned, the callback has been called exactly once
\* for every leaf, sequence or associative field decode has set, with the
\* field's prefixed key and the value assigned, and not at all for a field
\* it has not set.
C30_ObserverOncePerSetField ==
    ePc = "returned" =>
        \A v \in AllPaths : IsLeaf(v) => ObservedOnce(v)

\* the same for the fields decoded by a parser of the registry
ParsedFieldObservedOnce ==
    ePc = "returned" =>
        \A v \in AllPaths : FieldAt(v).kind = "int" => ObservedOnce(v)

\* the errors a field error wraps: those joined, or the single one
Wrapped(err) == IF err.type = "join" THEN err.errs ELSE <<err>>

\* C16: every element of a sequence field's split text is handed to the
\* element parser; when some element fails the field stays unassigned and
\* its single field error wraps one indexed failure per failing element.
C16_EveryElementReported ==
    \A v \in AllPaths :
        (v \in eAttempted /\ v \in DOMAIN eRaw /\ FieldAt(v).kind = "slice") =>
            LET parts == Split(eRaw[v].text, ",")
                bad == FailingParts(parts)
            IN  /\ Len(ParsesFor(v)) = Len(parts)
                /\ \A i \in 1..Len(parts) : ParsesFor(v)[i].text = parts[i]
                /\ bad # {} =>
                      /\ v \notin DOMAIN eAssigned
                      /\ Cardinality(ErrorsFor(v)) = 1
                      /\ \A k \in ErrorsFor(v) :
                            LET w == Wrapped(eErrs[k].Err)
                            IN  /\ Len(w) = Cardinality(bad)
                                /\ \A i \in bad :
                                      \E j \in 1..Len(w) :
                                          /\ w[j].type = "index"
                                          /\ w[j].index = i - 1

C16_Witness ==
    \E v \in AllPaths :
        /\ v \in DOMAIN eRaw
        /\ FieldAt(v).kind = "slice"
        /\ Cardinality(FailingParts(Split(eRaw[v].text, ","))) >= 2
        /\ ErrorsFor(v) # {}

FirstOf(S) == CHOOSE i \in S : \A j \in S : i <= j

\* C17: the first entry of an associative field's text that lacks the
\* key/value separator ends the decoding of the field at once: the field
\* error is an InvalidMapItemFormatError with that entry and the separator,
\* joined with nothing, no later entry is parsed, the field stays unassigned.
C17_MalformedItemIsDirect ==
    \A v \in AllPaths :
        (v \in DOMAIN eRaw /\ FieldAt(v).kind = "map") =>
            LET parts == Split(eRaw[v].text, ",")
                mal == MalformedItems(parts)
            IN  mal # {} =>
                    /\ v \notin DOMAIN eAssigned
                    /\ Cardinality(ErrorsFor(v)) = 1
                    /\ \A k \in ErrorsFor(v) :
                          eErrs[k].Err =
                              [type |-> "InvalidMapItemFormatError",
                               Item |-> parts[FirstOf(mal)],
                               KVSeparator |-> ":"]
                    /\ Len(ParsesFor(v)) <= 2 * (FirstOf(mal) - 1)

C17_Witness ==
    \E v \in AllPaths :
        /\ v \in DOMAIN eRaw
        /\ FieldAt(v).kind = "map"
        /\ LET parts == Split(eRaw[v].text, ",")
           IN  /\ MalformedItems(parts) = {2}
               /\ BadItems(parts) = {1, 2}
        /\ ErrorsFor(v) # {}

\* C18: a nested record field is decoded by recursing into its fields, each
\* looked up under the prefix, the group-prefixes of the enclosing records
\* and its own key; the record field itself needs no value of its own and
\* gets no value-not-set error.
C18_NestedRecordNeedsNoValue ==
    ePc = "returned" =>
        /\ \A k \in ErrIdx :
              ~(eErrs[k].Type = "struct" /\ eErrs[k].Err = ErrValueNotSet)
        /\ \A v \in AllPaths :
              (Settable(v) /\ Len(v) > 1) =>
                  /\ v \in eAttempted
                  /\ IsLeaf(v) => KeyOf(v) \in eLookups

KeysOf(path) == {KeyOf(path), NameKeyOf(path)}

\* C19: an unexported field, an ignored field (key "-") and everything
\* nested under one are skipped in silence: no lookup in the environment,
\* no assignment, no callback and no error, whatever the environment holds.
C19_SkippedFieldsUntouched ==
    \A v \in AllPaths :
        ~Settable(v) =>
            /\ v \notin eAttempted
            /\ v \notin DOMAIN eAssigned
            /\ v \notin DOMAIN eRaw
            /\ ParsesFor(v) = <<>>
            /\ KeysOf(v) \cap eLookups = {}
            /\ \A k \in OnSetIdx : eOnSet[k].key \notin KeysOf(v)
            /\ \A k \in ErrIdx : eErrs[k].Key \notin KeysOf(v)

C19_Witness ==
    /\ ePc = "returned"
    /\ Len(eSchema) = 2
    /\ <<1, 1>> \in AllPaths
    /\ FieldAt(<<1>>).key = "-"
    /\ ~FieldAt(<<2>>).exported
    /\ \A u \in {<<1, 1>>, <<2>>} :
          /\ NameKeyOf(u) \in DOMAIN eEnv
          /\ eEnv[NameKeyOf(u)] # <<>>

\* the fields decode has run on without setting them or entering them
FailedFields ==
    {v \in eAttempted :
        /\ v \notin DOMAIN eAssigned
        /\ ~(FieldAt(v).kind = "struct" /\ v \in DOMAIN eRaw)}

\* C20: Parse returns nil exactly when no field failed, the field error
\* itself when exactly one failed, and a join exposing every field error
\* when more than one failed.
C20_ResultShape ==
    ePc = "returned" =>
        LET n == Cardinality(FailedFields)
        IN  /\ Len(eErrs) = n
            /\ eResult.type = "nil" <=> n = 0
            /\ n = 1 => eResult.type = "FieldError" /\ eResult = eErrs[1]
            /\ n > 1 => eResult.type = "join" /\ eResult.errs = eErrs

C20_Witness ==
    /\ ePc = "returned"
    /\ Cardinality(FailedFields) = 2
    /\ eResult.type = "join"

\* the pointer fields of the record, all nil when decode starts
PointerFields == {v \in AllPaths : FieldAt(v).ptr}

KeyUnset(v) == KeyOf(v) \notin DOMAIN eEnv /\ ~FieldAt(v).defaultSet

\* C36: a pointer field that is nil before decode, whose key is not set in
\* the environment and that has no default, is nil after decode.
C36_UnsetPointerStaysNil ==
    ePc = "returned" =>
        \A v \in PointerFields : KeyUnset(v) => v \notin eAllocated

\* decode has returned with a target allocated for a pointer field it has
\* set no value in
AllocatedButNotSet ==
    /\ ePc = "returned"
    /\ \E v \in PointerFields :
         /\ KeyUnset(v)
         /\ v \in eAllocated
         /\ v \notin DOMAIN eAssigned

\* the pointer fields decode skips (tag "-") do stay nil
SkippedPointerStaysNil ==
    \A v \in PointerFields : FieldAt(v).key = "-" => v \notin eAllocated

\* the slice the function returned by envParams yields
activeParams == envParams(eOnSet)

\* the fields of a type implementing core.EnvParam that decode has set
DecodedParams == {v \in AllPaths : FieldAt(v).param /\ v \in DOMAIN eAssigned}

\* v is visited before w by the depth-first walk in declaration order
PathBefore(v, w) ==
    \E k \in 1..Len(v) :
        /\ k <= Len(w)
        /\ \A j \in 1..(k - 1) : v[j] = w[j]
        /\ v[k] < w[k]

PositionsOf(v) == {k \in 1..Len(activeParams) : activeParams[k] = KeyOf(v)}

RECURSIVE Strip(_, _)
Strip(typ, k) == IF k = 0 THEN typ ELSE Strip(Tail(typ), k - 1)

\* the named types that can decode themselves from text
TextDecodable(typ) == PointerBase(typ) \in {<<"TextV">>, <<"TextP">>, <<"Level">>}

HasBuiltIn(typ) == typ \in {<<"int">>, <<"Level">>}

MatchesAt(typ) ==
    typ \in DOMAIN envRegistry \/ TextDecodable(typ) \/ HasBuiltIn(typ)

\* the pointer levels of typ at which one of the three sources has a parser
MatchLevels(typ) == {k \in 0..PointerLevels(typ) : MatchesAt(Strip(typ, k))}

FirstSource(typ) ==
    IF typ \in DOMAIN envRegistry THEN "registry"
    ELSE IF TextDecodable(typ) THEN "text"
    ELSE "builtin"

SourceOf(f) ==
    CASE f.via \in {"registry", "nil"} -> "registry"
      [] Synthesized(f) -> "text"
      [] OTHER -> "builtin"

LookedUp == rLookup # NoLookup

\* C21: a lookup that finds a parser finds it at the first pointer level
\* where the registry, the text-decodable capability or the built-in table
\* has one, taken from the first of the three sources that has it, and
\* returns the number of pointer levels stripped to get there; a lookup
\* finds a parser whenever such a level exists.
C21_LookupOrder ==
    (LookedUp /\ ~rLookup.panicked) =>
        /\ rLookup.ok <=> MatchLevels(rLookup.typ) # {}
        /\ rLookup.ok =>
             \E k \in MatchLevels(rLookup.typ) :
                /\ \A j \in MatchLevels(rLookup.typ) : k <= j
                /\ rLookup.ptrDepth = k
                /\ SourceOf(rLookup.f) = FirstSource(Strip(rLookup.typ, k))
                /\ rLookup.f.via = "registry" =>
                     rLookup.f = envRegistry[Strip(rLookup.typ, k)]

\* the same for the types built from pointers only, which the loop of the
\* lookup never takes an element type of a slice for
PointerChainLookupOrder ==
    (LookedUp /\ ~rLookup.panicked /\ Kind(PointerBase(rLookup.typ)) # "Slice")
        => C21_LookupOrder

\* the parser a type was first given: by the map literal or by the first
\* call of RegisterEnvParser for it
FirstCallFor(typ) ==
    CHOOSE k \in 1..Len(rCalls) :
        /\ rCalls[k].typ = typ
        /\ \A j \in 1..(k - 1) : rCalls[j].typ # typ

FirstParser(typ) ==
    IF typ \in DOMAIN envRegistryLiteral THEN envRegistryLiteral[typ]
    ELSE rCalls[FirstCallFor(typ)].f

HadEntry(typ, k) ==
    \/ typ \in DOMAIN envRegistryLiteral
    \/ \E j \in 1..(k - 1) : rCalls[j].typ = typ

\* C22: a registration for a type that already has an entry panics, any
\* other registration does not, and every type of the registry holds the
\* parser it was first given.
C22_FirstRegistrationWins ==
    /\ \A k \in 1..Len(rCalls) :
         rCalls[k].panicked <=> HadEntry(rCalls[k].typ, k)
    /\ DOMAIN envRegistry =
         DOMAIN envRegistryLiteral \cup {rCalls[k].typ : k \in 1..Len(rCalls)}
    /\ \A typ \in DOMAIN envRegistry : envRegistry[typ] = FirstParser(typ)

C22_Witness ==
    /\ Len(rCalls) = 2
    /\ rCalls[1].typ = rCalls[2].typ
    /\ rCalls[1].f # rCalls[2].f
    /\ ~rCalls[1].panicked
    /\ rCalls[2].panicked

\* C23: the parser synthesized for a text-decodable T under d pointer
\* levels returns, when it succeeds, d pointer levels over a T that holds
\* the decoded text.
C23_PointerDepthRestored ==
    (LookedUp /\ TextDecodable(rLookup.typ) /\ rValue.outcome = "value") =>
        /\ rValue.levels = PointerLevels(rLookup.typ)
        /\ rValue.pointee = rValue.raw

\* the pointer levels alone, on both paths, and the decoded text on the
\* pointer-receiver path
PointerLevelsRestored ==
    (LookedUp /\ TextDecodable(rLookup.typ) /\ rValue.outcome = "value") =>
        /\ rValue.levels = PointerLevels(rLookup.typ)
        /\ rLookup.f.via = "ptrTextUnmarshaler" => rValue.pointee = rValue.raw

\* C29: a lookup of a type that has no parser at any pointer level returns
\* found = false and a nil parser.
C29_LookupTerminates ==
    (LookedUp /\ MatchLevels(rLookup.typ) = {}) =>
        /\ ~rLookup.panicked
        /\ ~rLookup.ok
        /\ rLookup.f = NilParser

\* C37: a lookup that reports found = true returns a parser that can be
\* called: no type of the registry, the entries of the map literal
\* included, resolves to a nil parser.
C37_FoundParserCallable ==
    (LookedUp /\ rLookup.ok) => rLookup.f # NilParser

\* the decoder calls what the lookup found: the call of a nil parser panics
NilParserInvoked ==
    /\ LookedUp
    /\ rLookup.ok
    /\ rLookup.f = NilParser
    /\ rValue.outcome = "panic"

(***************************************************************************)
(* Properties of Serve.                                                    *)
(***************************************************************************)
\* Serve was called on a configured wrapper that holds a listener
ServingAcquired == sConfigured /\ sPc \in {"serve", "wait", "returned"}

ReturnedNormally == sPc = "returned" /\ sRet # "serveErr"

\* C26: Serve on an acquired wrapper returns, unless its serve loop has
\* failed, only when the context is cancelled and the graceful shutdown has
\* finished; once the context is cancelled the graceful shutdown is started
\* and Serve eventually returns.
C26_ServeUntilCancelled ==
    /\ [](ServingAcquired /\ ReturnedNormally
            => sCtx = "done" /\ sInShutdown /\ sGo = "exited")
    /\ [](ServingAcquired /\ sCtx = "done" => <>sInShutdown)
    /\ [](ServingAcquired /\ sCtx = "done" => <>(sPc = "returned"))

C26_Witness ==
    /\ ServingAcquired
    /\ ReturnedNormally
    /\ sKind = "prometheus"
    /\ sCtx = "done"
    /\ sGo = "exited"
    /\ sRet = "DeadlineExceeded"
    /\ sActive > 0

(***************************************************************************)
(* Properties of the metric server of the runtime.                         *)
(***************************************************************************)
\* shutdown, called after a successful acquire, has returned
ShutdownReturned == mPc = "returned"

\* C34: shutdown of the metric server, called after a successful acquire,
\* returns only after the serving goroutine that acquire started has
\* exited.
C34_ShutdownWaitsForGoroutine == ShutdownReturned => mGo = "exited"

\* shutdown has returned nil while the serve loop is still running
ReturnedWhileServing ==
    /\ ShutdownReturned
    /\ mRet = "nil"
    /\ mGo = "serving"

(***************************************************************************)
(* Properties of the secret engine.                                        *)
(***************************************************************************)
CloseCalls == {k \in 1..Len(secCalls) : secCalls[k].op = "Close"}

GetSecretCalls == {k \in 1..Len(secCalls) : secCalls[k].op = "GetSecret"}

\* the Close call that returned first
FirstClose == CHOOSE k \in CloseCalls : \A j \in CloseCalls : k <= j

\* C35: the first call of Close closes every storage exactly once and every
\* later call closes nothing, so no storage is ever closed twice; a call of
\* GetSecret made after a Close has returned fails with the closed error;
\* all of it whatever the interleaving of the calls.
C35_CloseOnce ==
    /\ \A s \in Schemes : storageCloses[s] <= 1
    /\ CloseCalls # {} =>
         /\ \A s \in Schemes : storageCloses[s] = 1
         /\ secCalls[FirstClose].closedStorages = Schemes
         /\ \A k \in CloseCalls \ {FirstClose} :
              secCalls[k].closedStorages = {}
    /\ \A k \in GetSecretCalls :
         secCalls[k].start > 0 => secCalls[k].out = "ErrClosedPipe"

\* the part about GetSecret and the flag alone
GetSecretFailsAfterClose ==
    /\ \A k \in GetSecretCalls :
         secCalls[k].start > 0 => secCalls[k].out = "ErrClosedPipe"
    /\ Cardinality({k \in CloseCalls : secCalls[k].closedStorages = {}}) <= 1

\* the first Close has returned and no storage has been closed
FirstCloseClosesNothing ==
    /\ Cardinality(CloseCalls) = 1
    /\ \A s \in Schemes : storageCloses[s] = 0

\* two later calls of Close have each closed every storage
StoragesClosedTwice ==
    /\ Cardinality(CloseCalls) = 3
    /\ \A s \in Schemes : storageCloses[s] = 2

====
